---------------------------- MODULE Spec2Model ----------------------------
(***************************************************************************)
(* The outbound-message pipeline of pkg/signalmeow/sending.go:             *)
(* sendContent with its retry recursion, buildMessagesToSend under the     *)
(* encryption lock, the 409/410/428 handlers, and the addPadding codec.    *)
(***************************************************************************)
EXTENDS Integers, Sequences, FiniteSets, TLC

(***************************************************************************)
(* Bounds of the model.                                                    *)
(***************************************************************************)
\* device ids range over 1..MaxDevice
MaxDevice == 2
\* longest missingDevices / extraDevices / staleDevices array in a response body
MaxListed == 1
\* longest plaintext handed to addPadding
MaxPlainLen == 325
\* the retry counter and the count of transmitted batches saturate here (never
\* reached by the code as written)
RetryCap == 5
\* the clock runs over hours 0..MaxTime
MaxTime == 3
\* the count of certificate fetches saturates here
MaxFetches == 3
\* direct calls of senderCertificate in one behaviour
MaxCertCalls == 3
\* longest member list of a group
MaxMembers == 3
\* the contact-sync clock: seconds per tick, and where it stops
TickSeconds == 30
MaxSeconds == 120
\* contact sync requests dispatched in one behaviour
MaxContactRequests == 3

(***************************************************************************)
(* Program constants.                                                      *)
(***************************************************************************)
\* sendContent: if retryCount > 3
MaxRetries == 3
\* addPadding: block size
PadBlockSize == 160
\* padBlock: terminator byte 0x80
PadTerminator == 128
\* cli.Store.DeviceID of the sending client
SelfDevice == 1
\* senderCertificate: 1*exfmt.Day, in hours
Day == 24
\* SendContactSyncRequest: 60*time.Second, in seconds
MinuteSeconds == 60

Procs == {"s1", "s2"}
NoOne == "none"

\* ServiceIDs: own ACI, own PNI, another account's ACI, another account's PNI
SelfACI == "selfACI"
SelfPNI == "selfPNI"
OtherACI == "otherACI"
OtherPNI == "otherPNI"
Recipients == {SelfACI, SelfPNI, OtherACI, OtherPNI}
ServiceIDType(r) == IF r \in {SelfPNI, OtherPNI} THEN "PNI" ELSE "ACI"

Devices == 1..MaxDevice

\* a session is absent, freshly built from a prekey bundle, or established
SessionKinds == {"none", "fresh", "established"}

\* AllSessionsForServiceID: the device ids with a session for recipient r
AllSessionsForServiceID(s, r) == {d \in Devices : s[r][d] # "none"}

\* Content kinds (which field of signalpb.Content is set)
ContentKinds == {"Data", "Edit", "Typing", "ReceiptRead", "ReceiptDelivery",
                 "SyncSent", "SyncRead", "SyncRequest"}

isSyncMessageUrgent(c) == c \in {"SyncSent", "SyncRequest"}

isUrgent(c) == c \in {"Data", "Call", "Story", "Edit"} \/ isSyncMessageUrgent(c)

getContentHint(c) ==
    IF c \in {"Typing", "ReceiptRead", "ReceiptDelivery"} THEN "Implicit" ELSE "Default"

\* Sequences over S without repetition, of length at most n
RECURSIVE ListsUpTo(_, _)
ListsUpTo(S, n) ==
    IF n = 0 THEN {<< >>}
    ELSE LET shorter == ListsUpTo(S, n - 1)
         IN  shorter \cup {Append(l, d) : l \in shorter, d \in S}

Range(l) == {l[i] : i \in 1..Len(l)}

DeviceLists == {l \in ListsUpTo(Devices, MaxListed) : Cardinality(Range(l)) = Len(l)}


\* ascending list of a set of device ids
RECURSIVE SortedList(_)
SortedList(S) ==
    IF S = {} THEN << >>
    ELSE LET m == CHOOSE x \in S : \A y \in S : x <= y
         IN  <<m>> \o SortedList(S \ {m})

(***************************************************************************)
(* State.                                                                  *)
(***************************************************************************)
VARIABLES
    \* scenario, fixed by Init: who sends, to whom, and how the server answers
    senders, pool, kinds, server,
    \* scenario, fixed by Init: the certificate lifetimes the server issues, the
    \* outcomes of GetExpiration and of the certificate fetch
    certEnv,
    \* scenario, fixed by Init: cli.Store.DeviceData.AccountRecord
    account,
    \* scenario, fixed by Init: which of SendMessage and sendToGroup are called
    ops,
    \* scenario, fixed by Init: the outcomes ProfileKeyForSignalID and
    \* DeriveAccessKey can have
    profileKeys,
    \* cli.Store.ACISessionStore: [recipient -> [device -> session kind]]
    sessions,
    \* the server's device list per recipient (what the prekey endpoint serves)
    serverDevices,
    \* cli.encryptionLock: its holder, or NoOne
    encryptionLock,
    \* per send: position in sendContent / buildMessagesToSend
    pc,
    \* per send: arguments recipient, content, isGroup of sendContent
    call,
    \* per send: arguments retryCount and useUnidentifiedSender of the current level
    retryCount, useUnidentifiedSender,
    \* per send: addresses returned by AllSessionsForServiceID
    addresses,
    \* per send: the last batch handed to SendRequest
    batch,
    \* per send: number of batches transmitted by this top-level call
    sent,
    \* per send: last response received, and what its handler completed
    lastResponse, repairLog,
    \* per send: (sentUnidentified, err) returned by the top-level call
    result,
    \* per send: how the lookup of the recipient's profile key and the
    \* derivation of the access key ended in the current attempt
    profileKey,
    \* addPadding: inputs and output
    padVersion, padContents, padResult,
    \* the clock, in hours
    now,
    \* cli.SenderCertificateWithE164 (TRUE) and cli.SenderCertificateNoE164 (FALSE)
    certSlots,
    \* number of GET /v1/certificate/delivery requests issued
    certFetches,
    \* the direct calls of senderCertificate made so far, oldest first
    certLog,
    \* RecipientStore: the NeedsPNISignature flag per recipient
    needsPNISignature,
    \* the SendMessage or sendToGroup call in progress: its arguments, its
    \* position and its locals
    api,
    \* what that call returned
    apiResult,
    \* the calls of sendContent it has made so far, oldest first
    apiLog,
    \* the clock of the contact sync requests, in seconds
    seconds,
    \* cli.LastContactRequestTime
    LastContactRequestTime,
    \* per caller: position in SendContactSyncRequest and what it returned
    contact,
    \* the times at which a contact sync request was dispatched, oldest first
    contactLog

scenarioVars == <<senders, pool, kinds, server, serverDevices, certEnv, account, ops,
                  profileKeys>>
sendVars == <<sessions, encryptionLock, pc, call, retryCount, useUnidentifiedSender,
              addresses, batch, sent, lastResponse, repairLog, result, profileKey>>
padVars == <<padVersion, padContents, padResult>>
certVars == <<now, certSlots, certFetches, certLog>>
apiVars == <<needsPNISignature, api, apiResult, apiLog>>
contactVars == <<seconds, LastContactRequestTime, contact, contactLog>>
vars == <<scenarioVars, sendVars, padVars, certVars, apiVars, contactVars>>

NoCall == [recipient |-> SelfACI, content |-> "Data", isGroup |-> FALSE]
NoBatch == [envelopes |-> {}, socket |-> "none", accessKeyHeader |-> FALSE,
            urgent |-> FALSE, retryCount |-> 0]
NoResponse == [status |-> 0, bodyValid |-> TRUE, missingDevices |-> << >>,
               extraDevices |-> << >>, staleDevices |-> << >>]
NoResult == [err |-> "pending", sentUnidentified |-> FALSE]

(***************************************************************************)
(* Session-store mutations made by the send path.                          *)
(***************************************************************************)
\* FetchAndProcessPreKey: a fresh session for every device of ds
FetchAndProcessPreKey(s, r, ds) ==
    [s EXCEPT ![r] = [d \in Devices |-> IF d \in ds THEN "fresh" ELSE @[d]]]

\* ACISessionStore.RemoveSession for every device of ds
RemoveSession(s, r, ds) ==
    [s EXCEPT ![r] = [d \in Devices |-> IF d \in ds THEN "none" ELSE @[d]]]

\* handle409: a failed FetchAndProcessPreKey leaves the handler with "return nil"
Handle409FetchError == "nil"

\* handle409 when the first k prekey fetches and the first j removals succeed
handle409(s, r, body, k, j) ==
    LET missing == body.missingDevices
        extra == body.extraDevices
        afterFetch == FetchAndProcessPreKey(s, r, {missing[i] : i \in 1..k})
        fetchLog == [i \in 1..k |-> <<"FetchAndProcessPreKey", missing[i]>>]
        afterRemove == RemoveSession(afterFetch, r, {extra[i] : i \in 1..j})
        removeLog == [i \in 1..j |-> <<"RemoveSession", extra[i]>>]
    IN  IF ~body.bodyValid
        THEN [sessions |-> s, err |-> "Unmarshal error", log |-> << >>]
        ELSE IF k < Len(missing)
        THEN [sessions |-> afterFetch, err |-> Handle409FetchError, log |-> fetchLog]
        ELSE IF j < Len(extra)
        THEN [sessions |-> afterRemove, err |-> "RemoveSession error",
              log |-> fetchLog \o removeLog]
        ELSE [sessions |-> afterRemove, err |-> "nil", log |-> fetchLog \o removeLog]

\* the (k, j) a 409 handler run can end with
Handle409Outcomes(body) ==
    {o \in (0..Len(body.missingDevices)) \X (0..Len(body.extraDevices)) :
        /\ (~body.bodyValid => o = <<0, 0>>)
        /\ (o[1] < Len(body.missingDevices) => o[2] = 0)}

\* mutant: a failed fetch leaves handle410 with nil
Handle410FetchError_nil == "nil"

\* handle410: a failed FetchAndProcessPreKey is returned
Handle410FetchError == "prekey fetch error"

\* handle410 when the first k stale devices are fully replaced and, if k is not
\* all of them, device k+1 fails at the given stage
handle410(s, r, body, k, stage) ==
    LET stale == body.staleDevices
        replaced == {stale[i] : i \in 1..k}
        afterLoop == FetchAndProcessPreKey(RemoveSession(s, r, replaced), r, replaced)
        loopLog == [i \in 1..(2 * k) |->
                       IF i % 2 = 1 THEN <<"RemoveSession", stale[(i + 1) \div 2]>>
                       ELSE <<"FetchAndProcessPreKey", stale[i \div 2]>>]
    IN  IF ~body.bodyValid
        THEN [sessions |-> s, err |-> "Unmarshal error", log |-> << >>]
        ELSE IF k = Len(stale)
        THEN [sessions |-> afterLoop, err |-> "nil", log |-> loopLog]
        ELSE IF stage = "RemoveSession"
        THEN [sessions |-> afterLoop, err |-> "RemoveSession error", log |-> loopLog]
        ELSE [sessions |-> RemoveSession(afterLoop, r, {stale[k + 1]}),
              err |-> Handle410FetchError,
              log |-> Append(loopLog, <<"RemoveSession", stale[k + 1]>>)]

\* the (k, stage) a 410 handler run can end with
Handle410Outcomes(body) ==
    {o \in (0..Len(body.staleDevices)) \X {"RemoveSession", "FetchAndProcessPreKey"} :
        /\ (~body.bodyValid => o = <<0, "RemoveSession">>)
        /\ (o[1] = Len(body.staleDevices) => o[2] = "RemoveSession")}

\* handle428: parses the body, reads Retry-After for the log, returns nil
handle428(s, r, body) ==
    IF ~body.bodyValid
    THEN [sessions |-> s, err |-> "Unmarshal error", log |-> << >>]
    ELSE [sessions |-> s, err |-> "nil", log |-> << >>]

\* sendContent: retryableStatuses
RetryableStatuses == {409, 410, 428, 500, 503}

\* what sendContent's handler dispatch does for a retryable status
HandlerResults(s, r, resp) ==
    IF resp.status = 409
    THEN {handle409(s, r, resp, o[1], o[2]) : o \in Handle409Outcomes(resp)}
    ELSE IF resp.status = 410
    THEN {handle410(s, r, resp, o[1], o[2]) : o \in Handle410Outcomes(resp)}
    ELSE IF resp.status = 428
    THEN {handle428(s, r, resp)}
    ELSE {[sessions |-> s, err |-> "nil", log |-> << >>]}

(***************************************************************************)
(* The sender-certificate cache.                                           *)
(***************************************************************************)
\* an empty cache slot (nil)
NoCert == [id |-> 0, expiration |-> 0]

\* the certificate the n-th fetch returns, issued at time t with the given lifetime
Certificate(n, t, life) == [id |-> n, expiration |-> t + life]

\* mutant: a cached certificate is never taken as valid
CertStillValid_never(cached, t) == FALSE

\* senderCertificate: not (time.Until(expiry) < 1*exfmt.Day)
CertStillValid(cached, t) == ~(cached.expiration - t < Day)

\* outcomes of GetExpiration on the cached certificate
ExpiryReads == {"ok", "error"}

\* outcomes of the fetch: SendHTTPRequest fails, DecodeHTTPResponseBody fails,
\* DeserializeSenderCertificate fails (nil certificate), or a certificate
FetchOutcomes == {"http error", "decode error", "deserialize error", "ok"}

\* mutant: setCache writes both slots
senderCertificate_bothSlots(slots, e164, t, n, read, fetch, life) ==
    LET cached == slots[e164]
        cert == Certificate(n + 1, t, life)
    IN  IF cached # NoCert /\ read = "ok" /\ CertStillValid(cached, t)
        THEN [slots |-> slots, cert |-> cached, err |-> "nil", fetched |-> FALSE]
        ELSE IF fetch \in {"http error", "decode error", "deserialize error"}
        THEN [slots |-> [e \in BOOLEAN |-> NoCert], cert |-> NoCert,
              err |-> fetch, fetched |-> TRUE]
        ELSE [slots |-> [e \in BOOLEAN |-> cert], cert |-> cert,
              err |-> "nil", fetched |-> TRUE]

\* senderCertificate(ctx, e164) at time t with n fetches issued so far, when
\* GetExpiration ends as read, the fetch ends as fetch and the server issues a
\* certificate of the given lifetime
senderCertificate(slots, e164, t, n, read, fetch, life) ==
    LET cached == slots[e164]
        useCached == cached # NoCert /\ read = "ok" /\ CertStillValid(cached, t)
        \* setCache(nil) when the cached certificate is read as expiring
        cleared == IF cached # NoCert /\ read = "ok" /\ ~CertStillValid(cached, t)
                   THEN [slots EXCEPT ![e164] = NoCert]
                   ELSE slots
        cert == Certificate(n + 1, t, life)
    IN  IF useCached
        THEN [slots |-> slots, cert |-> cached, err |-> "nil", fetched |-> FALSE]
        ELSE IF fetch \in {"http error", "decode error"}
        THEN [slots |-> cleared, cert |-> NoCert, err |-> fetch, fetched |-> TRUE]
        ELSE IF fetch = "deserialize error"
        THEN [slots |-> [cleared EXCEPT ![e164] = NoCert], cert |-> NoCert,
              err |-> fetch, fetched |-> TRUE]
        ELSE [slots |-> [cleared EXCEPT ![e164] = cert], cert |-> cert,
              err |-> "nil", fetched |-> TRUE]

\* the fetch counter after a call
CountFetch(n, c) == IF c.fetched /\ n < MaxFetches THEN n + 1 ELSE n

\* the cache unchanged
SameCertificates == [slots |-> certSlots, fetches |-> certFetches, err |-> "nil"]

\* buildSSMessageToSend called for k devices in a row: the cache and the fetch
\* counter after the calls of senderCertificate, up to the first that fails
RECURSIVE SealedCertificates(_, _, _, _)
SealedCertificates(slots, n, e164, k) ==
    IF k = 0 THEN {[slots |-> slots, fetches |-> n, err |-> "nil"]}
    ELSE UNION {
            LET c == senderCertificate(slots, e164, now, n, read, fetch, life)
            IN  IF c.err # "nil"
                THEN {[slots |-> c.slots, fetches |-> CountFetch(n, c), err |-> c.err]}
                ELSE SealedCertificates(c.slots, CountFetch(n, c), e164, k - 1) :
            read \in certEnv.reads, fetch \in certEnv.fetches, life \in certEnv.lifetimes}

\* a server whose certificates are long-lived, a readable expiration, no fetch failure
QuietCertEnv == [lifetimes |-> {2 * Day}, reads |-> {"ok"}, fetches |-> {"ok"}]

\* AccountRecord with typing indicators and read receipts on, number shared
DefaultAccount == [present |-> TRUE, typingIndicators |-> TRUE, readReceipts |-> TRUE,
                   phoneNumberSharing |-> "EVERYBODY"]

\* buildMessagesToSend: includeE164 for the sealed-sender certificate
IncludeE164(isGroup) == ~isGroup /\ account.present /\ account.phoneNumberSharing = "EVERYBODY"

(***************************************************************************)
(* The server and the transport.                                           *)
(***************************************************************************)
\* every response the socket can hand back; status 0 stands for a transport error
AnyResponses ==
    {[NoResponse EXCEPT !.status = st] : st \in {0, 200, 401, 404, 500, 503}}
    \cup {[NoResponse EXCEPT !.status = 409, !.missingDevices = m, !.extraDevices = e] :
            m \in DeviceLists, e \in DeviceLists}
    \cup {[NoResponse EXCEPT !.status = 410, !.staleDevices = st] : st \in DeviceLists}
    \cup {[NoResponse EXCEPT !.status = st, !.bodyValid = v] :
            st \in {409, 410, 428}, v \in BOOLEAN}

\* the devices the server expects a batch for recipient r to cover
ExpectedDevices(r) == serverDevices[r] \ (IF r = SelfACI THEN {SelfDevice} ELSE {})

\* a server that answers 200 on a matching device set and an exact 409 otherwise
ExactResponses(r, b) ==
    LET got == {e.destinationDeviceId : e \in b.envelopes}
        expected == ExpectedDevices(r)
    IN  IF got = expected
        THEN {[NoResponse EXCEPT !.status = 200]}
        ELSE {[NoResponse EXCEPT !.status = 409,
                                 !.missingDevices = SortedList(expected \ got),
                                 !.extraDevices = SortedList(got \ expected)]}

Responses(r, b) ==
    IF server = "exact"
    THEN ExactResponses(r, b) \cup {[NoResponse EXCEPT !.status = 0]}
    ELSE AnyResponses

\* what the prekey endpoint can return for "all devices" (device id -1)
PreKeyBundles(r) ==
    IF server = "exact" THEN {serverDevices[r]} ELSE SUBSET Devices

(***************************************************************************)
(* sendContent.                                                            *)
(***************************************************************************)
\* the argument tuples the callers of sendContent pass at retryCount 0
CallSites ==
    \* SendMessage
    {[recipient |-> r, content |-> c, useUnidentifiedSender |-> TRUE, isGroup |-> FALSE] :
        r \in Recipients \ {SelfACI},
        c \in {"Data", "Edit", "Typing", "ReceiptRead", "ReceiptDelivery"}}
    \cup {[recipient |-> SelfACI, content |-> "ReceiptDelivery",
           useUnidentifiedSender |-> TRUE, isGroup |-> FALSE]}
    \* sendSyncCopy
    \cup {[recipient |-> SelfACI, content |-> c, useUnidentifiedSender |-> TRUE,
           isGroup |-> FALSE] : c \in {"SyncSent", "SyncRead"}}
    \* sendToGroup: the members, then the sync copy
    \cup {[recipient |-> r, content |-> c, useUnidentifiedSender |-> TRUE, isGroup |-> TRUE] :
        r \in Recipients \ {SelfACI}, c \in {"Data", "Edit"}}
    \cup {[recipient |-> SelfACI, content |-> "SyncSent", useUnidentifiedSender |-> TRUE,
           isGroup |-> TRUE]}
    \* SendContactSyncRequest, SendStorageMasterKeyRequest
    \cup {[recipient |-> SelfACI, content |-> "SyncRequest",
           useUnidentifiedSender |-> FALSE, isGroup |-> FALSE]}

\* mutant: the retry check is off by one
TooManyRetries_offByOne(n) == n > MaxRetries + 1

\* mutant: the retry check is missing
TooManyRetries_never(n) == FALSE

\* sendContent: if retryCount > 3
TooManyRetries(n) == n > MaxRetries

\* mutant: the own-PNI check is missing
IsOwnPNI_never(r) == FALSE

\* sendContent: the recipient is the sender's own PNI
IsOwnPNI(r) == ServiceIDType(r) = "PNI" /\ r = SelfPNI

\* mutant: the PNI override is missing
OverrideUnidentified_noPNI(r, unid) ==
    IF ServiceIDType(r) = "ACI" /\ r = SelfACI THEN FALSE ELSE unid

\* sendContent: useUnidentifiedSender after the own-ACI and PNI overrides
OverrideUnidentified(r, unid) ==
    IF ServiceIDType(r) = "ACI" /\ r = SelfACI THEN FALSE
    ELSE IF ServiceIDType(r) = "PNI" THEN FALSE
    ELSE unid

\* sendContent: ProfileKeyForSignalID and DeriveAccessKey, by their outcome
ProfileKeyOutcomes == {"error", "missing", "deriveFails", "ok"}

\* a nil *signalpb.Content
NilContent == "nil"

\* a top-level call of sendContent
Call(p) ==
    /\ pc[p] = "idle"
    /\ p \in senders
    /\ \E c \in CallSites :
        /\ c.recipient \in pool
        /\ c.content \in kinds
        /\ call' = [call EXCEPT ![p] = [recipient |-> c.recipient, content |-> c.content,
                                        isGroup |-> c.isGroup]]
        /\ useUnidentifiedSender' = [useUnidentifiedSender EXCEPT ![p] = c.useUnidentifiedSender]
    /\ retryCount' = [retryCount EXCEPT ![p] = 0]
    /\ sent' = [sent EXCEPT ![p] = 0]
    /\ pc' = [pc EXCEPT ![p] = "sendContent"]
    /\ UNCHANGED <<sessions, encryptionLock, addresses, batch, lastResponse, repairLog, result,
                   profileKey>>
    /\ UNCHANGED <<scenarioVars, padVars, certVars, apiVars, contactVars>>

\* the send returns (sentUnidentified, err) to its caller
Finish(p, unid, err) ==
    /\ pc' = [pc EXCEPT ![p] = "done"]
    /\ result' = [result EXCEPT ![p] = [err |-> err, sentUnidentified |-> unid]]

\* mutant: a profile key that is missing, or an access key that cannot be
\* derived, ends the send like a failed lookup
ProfileKeyFatal_unlessOk(k) == k # "ok"

\* sendContent: the lookup error is returned ("failed to get profile key")
ProfileKeyFatal(k) == k = "error"

\* sendContent from its entry to the call of buildMessagesToSend
Enter(p) ==
    /\ pc[p] = "sendContent"
    /\ LET r == call[p].recipient
           unid == OverrideUnidentified(r, useUnidentifiedSender[p])
       IN  IF call[p].content = NilContent
           \* content.DataMessage on a nil *signalpb.Content: the goroutine panics
           THEN /\ pc' = [pc EXCEPT ![p] = "panic"]
                /\ UNCHANGED <<useUnidentifiedSender, profileKey, result>>
           ELSE IF TooManyRetries(retryCount[p])
           THEN Finish(p, FALSE, "too many retries")
                /\ UNCHANGED <<useUnidentifiedSender, profileKey>>
           ELSE IF IsOwnPNI(r)
           THEN Finish(p, FALSE, "can't send to own PNI")
                /\ UNCHANGED <<useUnidentifiedSender, profileKey>>
           ELSE IF ~unid
           THEN /\ useUnidentifiedSender' = [useUnidentifiedSender EXCEPT ![p] = FALSE]
                /\ profileKey' = [profileKey EXCEPT ![p] = "none"]
                /\ pc' = [pc EXCEPT ![p] = "lock"]
                /\ UNCHANGED result
           ELSE \E k \in profileKeys :
                   /\ profileKey' = [profileKey EXCEPT ![p] = k]
                   /\ IF ProfileKeyFatal(k)
                      THEN Finish(p, FALSE, "failed to get profile key")
                           /\ UNCHANGED useUnidentifiedSender
                      ELSE /\ useUnidentifiedSender' =
                                 [useUnidentifiedSender EXCEPT ![p] = (k = "ok")]
                           /\ pc' = [pc EXCEPT ![p] = "lock"]
                           /\ UNCHANGED result
    /\ UNCHANGED <<sessions, encryptionLock, call, retryCount, addresses, batch, sent,
                   lastResponse, repairLog>>
    /\ UNCHANGED <<scenarioVars, padVars, certVars, apiVars, contactVars>>

(***************************************************************************)
(* buildMessagesToSend.                                                    *)
(***************************************************************************)
\* mutant: the lock is not taken
LockFree_always == TRUE

\* cli.encryptionLock.Lock() can return
LockFree == encryptionLock = NoOne

\* mutant: the own device is not skipped
SkipOwnDevice_never(r, d) == FALSE

\* mutant: device SelfDevice is skipped for every account
SkipOwnDevice_anyAccount(r, d) == d = SelfDevice

\* "Don't send to this device that we are sending from"
SkipOwnDevice(r, d) == r = SelfACI /\ d = SelfDevice

\* mutant: the envelope is built by the authenticated path whatever the mode
EnvelopeType_neverSealed(unauthenticated, kind) ==
    IF kind = "fresh" THEN "PREKEY_BUNDLE" ELSE "CIPHERTEXT"

\* buildSSMessageToSend / buildAuthedMessageToSend: the envelope type
EnvelopeType(unauthenticated, kind) ==
    IF unauthenticated THEN "UNIDENTIFIED_SENDER"
    ELSE IF kind = "fresh" THEN "PREKEY_BUNDLE"
    ELSE "CIPHERTEXT"

\* the loop of buildMessagesToSend over the enumerated addresses
MessagesFor(s, r, addrs, unauthenticated) ==
    {[type |-> EnvelopeType(unauthenticated, s[r][d]), destinationDeviceId |-> d] :
        d \in {a \in addrs : ~SkipOwnDevice(r, a)}}

\* checkForErrorWithSessions on the enumerated addresses
checkForErrorWithSessions(err, addrs) ==
    IF err # "nil" THEN err
    ELSE IF addrs = {} THEN "no addresses or session records"
    ELSE "nil"

\* buildMessagesToSend: take the lock and enumerate the recipient's sessions
Enumerate(p) ==
    /\ pc[p] = "lock"
    /\ LockFree
    /\ LET r == call[p].recipient
           found == AllSessionsForServiceID(sessions, r)
       IN  \E storeErr \in {"nil", "session store error"} :
               IF storeErr # "nil"
               THEN /\ Finish(p, FALSE, checkForErrorWithSessions(storeErr, {}))
                    /\ UNCHANGED <<encryptionLock, addresses>>
               ELSE /\ encryptionLock' = p
                    /\ addresses' = [addresses EXCEPT ![p] = found]
                    /\ pc' = [pc EXCEPT ![p] = IF found = {} THEN "fetchPreKey" ELSE "encrypt"]
                    /\ UNCHANGED result
    /\ UNCHANGED <<sessions, call, retryCount, useUnidentifiedSender, batch, sent,
                   lastResponse, repairLog, profileKey>>
    /\ UNCHANGED <<scenarioVars, padVars, certVars, apiVars, contactVars>>

\* mutant: the lock stays with the send after buildMessagesToSend returned
Unlock_held(p) == p

\* defer cli.encryptionLock.Unlock(): the holder of the lock once
\* buildMessagesToSend has returned
Unlock(p) == NoOne

\* buildMessagesToSend: no sessions, so fetch a prekey bundle for all devices
\* (device id -1) and enumerate again
FetchPreKey(p) ==
    /\ pc[p] = "fetchPreKey"
    /\ LET r == call[p].recipient
       IN  \E fetchErr \in {"nil", "prekey fetch error"}, ds \in PreKeyBundles(r) :
               IF fetchErr # "nil"
               THEN /\ ds = CHOOSE x \in PreKeyBundles(r) : TRUE
                    /\ Finish(p, FALSE, fetchErr)
                    /\ encryptionLock' = Unlock(p)
                    /\ UNCHANGED <<sessions, addresses>>
               ELSE LET after == FetchAndProcessPreKey(sessions, r, ds)
                        found == AllSessionsForServiceID(after, r)
                        err == checkForErrorWithSessions("nil", found)
                    IN  /\ sessions' = after
                        /\ addresses' = [addresses EXCEPT ![p] = found]
                        /\ IF err # "nil"
                           THEN Finish(p, FALSE, err) /\ encryptionLock' = Unlock(p)
                           ELSE /\ pc' = [pc EXCEPT ![p] = "encrypt"]
                                /\ UNCHANGED <<result, encryptionLock>>
    /\ UNCHANGED <<call, retryCount, useUnidentifiedSender, batch, sent,
                   lastResponse, repairLog, profileKey>>
    /\ UNCHANGED <<scenarioVars, padVars, certVars, apiVars, contactVars>>

\* buildMessagesToSend: encrypt for every enumerated device, release the lock;
\* then sendContent packs the batch and hands it to the socket
EncryptAndSend(p) ==
    /\ pc[p] = "encrypt"
    /\ LET r == call[p].recipient
           unid == useUnidentifiedSender[p]
           messages == MessagesFor(sessions, r, addresses[p], unid)
           count == Cardinality(messages)
           \* Encrypt and SealedSenderEncryptPlaintext load the session by address
           lost == \E m \in messages : sessions[r][m.destinationDeviceId] = "none"
           e164 == IncludeE164(call[p].isGroup)
       IN  \E encErr \in (IF messages = {} THEN {"nil"} ELSE {"nil", "encrypt error"}),
              calls \in 1..(IF count = 0 THEN 1 ELSE count) :
           \E certs \in (IF unid /\ messages # {}
                          THEN SealedCertificates(certSlots, certFetches, e164, calls)
                          ELSE {SameCertificates}) :
               /\ certSlots' = certs.slots
               /\ certFetches' = certs.fetches
               /\ IF certs.err # "nil"
                  THEN /\ encErr = "nil"
                       /\ Finish(p, FALSE, certs.err)
                       /\ UNCHANGED <<batch, sent>>
                  ELSE IF lost \/ encErr # "nil"
                  THEN /\ encErr # "nil"
                       /\ Finish(p, FALSE, encErr)
                       /\ UNCHANGED <<batch, sent>>
                  ELSE /\ calls = (IF count = 0 THEN 1 ELSE count)
                       /\ batch' = [batch EXCEPT ![p] =
                                      [envelopes |-> messages,
                                       socket |-> IF unid THEN "unauthed" ELSE "authed",
                                       accessKeyHeader |-> unid,
                                       urgent |-> isUrgent(call[p].content),
                                       retryCount |-> retryCount[p]]]
                       /\ sent' = [sent EXCEPT ![p] = IF @ <= RetryCap THEN @ + 1 ELSE @]
                       /\ pc' = [pc EXCEPT ![p] = "awaiting"]
                       /\ UNCHANGED result
    /\ encryptionLock' = Unlock(p)
    /\ UNCHANGED <<sessions, call, retryCount, useUnidentifiedSender, addresses,
                   lastResponse, repairLog, profileKey>>
    /\ UNCHANGED <<scenarioVars, padVars, now, certLog, apiVars, contactVars>>

(***************************************************************************)
(* sendContent: the response and the retry.                                *)
(***************************************************************************)
\* mutant: the 401 retry keeps the sealed mode
RetryUnidentified_keep(status, sentUnidentified) == sentUnidentified

\* mutant: the retry after a retryable status asks for the sealed mode again
RetryUnidentified_sealed(status, sentUnidentified) == status \in RetryableStatuses

\* mutant: every retry is made authenticated
RetryUnidentified_authed(status, sentUnidentified) == FALSE

\* useUnidentifiedSender handed to the recursive call: sentUnidentified after a
\* retryable status, false after a 401 on the unauthenticated socket
RetryUnidentified(status, sentUnidentified) ==
    IF status \in RetryableStatuses THEN sentUnidentified ELSE FALSE

\* sendContent(..., retryCount+1, unid, isGroup)
Retry(p, unid) ==
    /\ retryCount' = [retryCount EXCEPT ![p] = IF @ < RetryCap THEN @ + 1 ELSE @]
    /\ useUnidentifiedSender' = [useUnidentifiedSender EXCEPT ![p] = unid]
    /\ pc' = [pc EXCEPT ![p] = "sendContent"]
    /\ UNCHANGED result

\* mutant: the error of SendRequest is not looked at
TransportError_ignored(resp) == FALSE

\* SendRequest returned an error (the connection failed, the context was cancelled)
TransportError(resp) == resp.status = 0

\* mutant: a 401 is retried whatever socket it came from
Downgrade401_anySocket(status, unid) == status = 401

\* sendContent: "Retrying send without sealed sender"
Downgrade401(status, unid) == status = 401 /\ unid

\* mutant: every submitted attempt is reported as sealed
SentUnidentified_always(unid) == TRUE

\* sendContent: sentUnidentified = useUnidentifiedSender, set once SendRequest returned
SentUnidentified(unid) == unid

\* sendContent from the return of SendRequest to its return or its recursive call
Respond(p) ==
    /\ pc[p] = "awaiting"
    /\ LET r == call[p].recipient
           sentUnidentified == SentUnidentified(useUnidentifiedSender[p])
       IN  \E resp \in Responses(r, batch[p]) :
             /\ lastResponse' = [lastResponse EXCEPT ![p] = resp]
             /\ IF TransportError(resp)
                THEN /\ Finish(p, sentUnidentified, "transport error")
                     /\ UNCHANGED <<sessions, repairLog, retryCount, useUnidentifiedSender>>
                ELSE IF resp.status \in RetryableStatuses
                THEN \E h \in HandlerResults(sessions, r, resp) :
                        /\ sessions' = h.sessions
                        /\ repairLog' = [repairLog EXCEPT ![p] = h.log]
                        /\ IF h.err # "nil"
                           THEN /\ Finish(p, FALSE, h.err)
                                /\ UNCHANGED <<retryCount, useUnidentifiedSender>>
                           ELSE Retry(p, RetryUnidentified(resp.status, sentUnidentified))
                ELSE IF Downgrade401(resp.status, useUnidentifiedSender[p])
                THEN /\ Retry(p, RetryUnidentified(resp.status, sentUnidentified))
                     /\ UNCHANGED <<sessions, repairLog>>
                ELSE IF resp.status # 200
                THEN /\ Finish(p, sentUnidentified, "unexpected status code")
                     /\ UNCHANGED <<sessions, repairLog, retryCount, useUnidentifiedSender>>
                ELSE /\ Finish(p, sentUnidentified, "nil")
                     /\ UNCHANGED <<sessions, repairLog, retryCount, useUnidentifiedSender>>
    /\ UNCHANGED <<encryptionLock, call, addresses, batch, sent, profileKey>>
    /\ UNCHANGED <<scenarioVars, padVars, certVars, apiVars, contactVars>>

\* the caller takes the result; the send's locals are gone
Return(p) ==
    /\ pc[p] = "done"
    /\ pc' = [pc EXCEPT ![p] = "idle"]
    /\ call' = [call EXCEPT ![p] = NoCall]
    /\ retryCount' = [retryCount EXCEPT ![p] = 0]
    /\ useUnidentifiedSender' = [useUnidentifiedSender EXCEPT ![p] = FALSE]
    /\ addresses' = [addresses EXCEPT ![p] = {}]
    /\ batch' = [batch EXCEPT ![p] = NoBatch]
    /\ sent' = [sent EXCEPT ![p] = 0]
    /\ lastResponse' = [lastResponse EXCEPT ![p] = NoResponse]
    /\ repairLog' = [repairLog EXCEPT ![p] = << >>]
    /\ result' = [result EXCEPT ![p] = NoResult]
    /\ profileKey' = [profileKey EXCEPT ![p] = "none"]
    /\ UNCHANGED <<sessions, encryptionLock>>
    /\ UNCHANGED <<scenarioVars, padVars, certVars, apiVars, contactVars>>

Step(p) ==
    \/ Call(p)
    \/ Enter(p)
    \/ Enumerate(p)
    \/ FetchPreKey(p)
    \/ EncryptAndSend(p)
    \/ Respond(p)
    \/ Return(p)

Next == \E p \in Procs : Step(p)

(***************************************************************************)
(* SendMessage, sendSyncCopy and sendToGroup: the callers of sendContent.  *)
(***************************************************************************)
\* the send that carries the sendContent calls of SendMessage and sendToGroup
ApiProc == "s1"

\* the content kinds SendMessage is handed
MessageKinds == {"Data", "Edit", "Typing", "ReceiptRead", "ReceiptDelivery"}

\* the content kinds of a group message that has a sync form
GroupKinds == {"Data", "Edit"}

NoApi == [op |-> "none", at |-> "idle", recipient |-> SelfACI, content |-> "Data",
          members |-> << >>, next |-> 0, gate |-> "none",
          needs |-> FALSE, pniSignature |-> FALSE, otherDevices |-> 0]

NoApiResult == [kind |-> "none", WasSuccessful |-> FALSE, Recipient |-> SelfACI,
                Unidentified |-> FALSE, Error |-> "nil",
                SuccessfullySentTo |-> << >>, FailedToSendTo |-> << >>,
                isNil |-> FALSE]

\* SendMessageResult{WasSuccessful: ok, SuccessfulSendResult{Recipient, Unidentified}}
SuccessfulSendResult(r, unid, ok) ==
    [NoApiResult EXCEPT !.kind = "SendMessageResult", !.WasSuccessful = ok,
                        !.Recipient = r, !.Unidentified = unid]

\* SendMessageResult{WasSuccessful: false, FailedSendResult{Recipient, Error}}
FailedSendResult(r, err) ==
    [NoApiResult EXCEPT !.kind = "SendMessageResult", !.WasSuccessful = FALSE,
                        !.Recipient = r, !.Error = err]

\* howManyOtherDevicesDoWeHave: sessions of the own ACI on other devices, 0
\* when the session store fails
howManyOtherDevicesDoWeHave(s, storeErr) ==
    IF storeErr THEN 0
    ELSE Cardinality(AllSessionsForServiceID(s, SelfACI) \ {SelfDevice})

\* sendSyncCopy: the sync content for a solo message to recipient r ("nil": none)
SoloSyncContent(c, r) ==
    IF c \in {"Data", "Edit"} THEN "SyncSent"
    ELSE IF c = "ReceiptRead" /\ ServiceIDType(r) = "ACI" THEN "SyncRead"
    ELSE "nil"

\* sendToGroup: the sync content for a group message ("nil": none)
GroupSyncContent(c) == IF c \in {"Data", "Edit"} THEN "SyncSent" ELSE "nil"

\* LoadAndUpdateRecipient with the PNI-signature callback, by its outcome
LoadOutcomes == {"ok", "load error", "sign error", "save error"}

\* SendMessage: the closure's needsPNISignature after LoadAndUpdateRecipient
NeedsPNISignature(r, load) ==
    ServiceIDType(r) = "ACI" /\ needsPNISignature[r] /\ load # "load error"

\* mutant: the PNI-signature case is not treated as a message request
SendGate_noMessageRequest(r, c, needs) ==
    IF c = "Typing" /\ account.present /\ ~account.typingIndicators
    THEN "typingDisabled"
    ELSE IF c = "ReceiptRead" /\ account.present /\ ~account.readReceipts
    THEN "readReceiptsDisabled"
    ELSE IF r = SelfACI /\ c # "ReceiptDelivery" THEN "self"
    ELSE "wire"

\* mutant: the read-receipts setting is not looked at
SendGate_noReadReceiptGate(r, c, needs) ==
    IF needs /\ c \in {"Typing", "ReceiptRead", "ReceiptDelivery"} THEN "messageRequest"
    ELSE IF c = "Typing" /\ account.present /\ ~account.typingIndicators
    THEN "typingDisabled"
    ELSE IF r = SelfACI /\ c # "ReceiptDelivery" THEN "self"
    ELSE "wire"

\* mutant: the typing-indicators setting is not looked at
SendGate_noTypingGate(r, c, needs) ==
    IF needs /\ c \in {"Typing", "ReceiptRead", "ReceiptDelivery"} THEN "messageRequest"
    ELSE IF c = "ReceiptRead" /\ account.present /\ ~account.readReceipts
    THEN "readReceiptsDisabled"
    ELSE IF r = SelfACI /\ c # "ReceiptDelivery" THEN "self"
    ELSE "wire"

\* mutant: a message to the own ACI goes to the wire like any other
SendGate_noSelfGate(r, c, needs) ==
    IF needs /\ c \in {"Typing", "ReceiptRead", "ReceiptDelivery"} THEN "messageRequest"
    ELSE IF c = "Typing" /\ account.present /\ ~account.typingIndicators
    THEN "typingDisabled"
    ELSE IF c = "ReceiptRead" /\ account.present /\ ~account.readReceipts
    THEN "readReceiptsDisabled"
    ELSE "wire"

\* SendMessage: which branch handles the message
SendGate(r, c, needs) ==
    IF needs /\ c \in {"Typing", "ReceiptRead", "ReceiptDelivery"} THEN "messageRequest"
    ELSE IF c = "Typing" /\ account.present /\ ~account.typingIndicators
    THEN "typingDisabled"
    ELSE IF c = "ReceiptRead" /\ account.present /\ ~account.readReceipts
    THEN "readReceiptsDisabled"
    ELSE IF r = SelfACI /\ c # "ReceiptDelivery" THEN "self"
    ELSE "wire"

\* the variables of one send
perSendVars == <<pc, call, retryCount, useUnidentifiedSender, addresses, batch, sent,
                 lastResponse, repairLog, result, profileKey>>

\* cli.sendContent(ctx, r, ts, c, 0, unid, isGroup) is entered
StartSend(p, r, c, unid, isGroup) ==
    /\ pc' = [pc EXCEPT ![p] = "sendContent"]
    /\ call' = [call EXCEPT ![p] = [recipient |-> r, content |-> c, isGroup |-> isGroup]]
    /\ retryCount' = [retryCount EXCEPT ![p] = 0]
    /\ useUnidentifiedSender' = [useUnidentifiedSender EXCEPT ![p] = unid]
    /\ addresses' = [addresses EXCEPT ![p] = {}]
    /\ batch' = [batch EXCEPT ![p] = NoBatch]
    /\ sent' = [sent EXCEPT ![p] = 0]
    /\ lastResponse' = [lastResponse EXCEPT ![p] = NoResponse]
    /\ repairLog' = [repairLog EXCEPT ![p] = << >>]
    /\ result' = [result EXCEPT ![p] = NoResult]
    /\ profileKey' = [profileKey EXCEPT ![p] = "none"]

\* no sendContent call is in progress
ClearSend(p) ==
    /\ pc' = [pc EXCEPT ![p] = "idle"]
    /\ call' = [call EXCEPT ![p] = NoCall]
    /\ retryCount' = [retryCount EXCEPT ![p] = 0]
    /\ useUnidentifiedSender' = [useUnidentifiedSender EXCEPT ![p] = FALSE]
    /\ addresses' = [addresses EXCEPT ![p] = {}]
    /\ batch' = [batch EXCEPT ![p] = NoBatch]
    /\ sent' = [sent EXCEPT ![p] = 0]
    /\ lastResponse' = [lastResponse EXCEPT ![p] = NoResponse]
    /\ repairLog' = [repairLog EXCEPT ![p] = << >>]
    /\ result' = [result EXCEPT ![p] = NoResult]
    /\ profileKey' = [profileKey EXCEPT ![p] = "none"]

\* a sendContent call as the log records it when it is entered
LogEntry(role, r, c, isGroup, status) ==
    [role |-> role, recipient |-> r, content |-> c, isGroup |-> isGroup,
     unidentifiedStatus |-> status, returned |-> FALSE, err |-> "nil",
     sentUnidentified |-> FALSE, batches |-> 0]

\* the log once the sendContent call in progress has returned
CloseLog(log, p) ==
    [log EXCEPT ![Len(log)] = [@ EXCEPT !.returned = TRUE, !.err = result[p].err,
                                         !.sentUnidentified = result[p].sentUnidentified,
                                         !.batches = sent[p]]]

\* mutant: a failed sync copy fails the message
AfterSyncCopy_propagate(gate, pending, ok) ==
    [pending EXCEPT !.WasSuccessful = ok]

\* SendMessage: the result once sendSyncCopy has returned ok; only the send to
\* the own account looks at ok
AfterSyncCopy(gate, pending, ok) ==
    IF gate = "self" THEN [pending EXCEPT !.WasSuccessful = ok] ELSE pending

\* mutant: the sync copy does not look at the other devices
WantsSyncCopy_anyDevices(others, syncContent) == syncContent # "nil"

\* sendSyncCopy: a sync message is sent to the own account
WantsSyncCopy(others, syncContent) == others > 0 /\ syncContent # "nil"

\* sendSyncCopy(ctx, content, ts, &pending) called by SendMessage with locals a:
\* either sendContent is entered for the sync message, or sendSyncCopy returns
\* false and SendMessage returns
SendSyncCopy(a, pending, log, storeErr) ==
    LET others == howManyOtherDevicesDoWeHave(sessions, storeErr)
        syncContent == SoloSyncContent(a.content, pending.Recipient)
    IN  IF WantsSyncCopy(others, syncContent)
        THEN /\ StartSend(ApiProc, SelfACI, syncContent, TRUE, FALSE)
             /\ apiLog' = Append(log, LogEntry("sync", SelfACI, syncContent, FALSE,
                                    <<[Recipient |-> pending.Recipient,
                                       Unidentified |-> pending.Unidentified]>>))
             /\ apiResult' = pending
             /\ api' = [a EXCEPT !.at = "sync", !.otherDevices = others]
        ELSE /\ ClearSend(ApiProc)
             /\ apiLog' = log
             /\ apiResult' = AfterSyncCopy(a.gate, pending, FALSE)
             /\ api' = [a EXCEPT !.at = "returned", !.otherDevices = others]

\* SendMessage(ctx, r, c) from its entry to its first call of sendContent, or
\* to its return when it makes none
SendMessage(r, c) ==
    /\ "SendMessage" \in ops
    /\ api.at = "idle"
    /\ pc[ApiProc] = "idle"
    /\ r \in pool
    /\ c \in kinds \cap MessageKinds
    /\ \E load \in LoadOutcomes, storeErr \in BOOLEAN :
          LET needs == NeedsPNISignature(r, load)
              gate == SendGate(r, c, needs)
              a == [NoApi EXCEPT !.op = "SendMessage", !.recipient = r, !.content = c,
                                 !.gate = gate, !.needs = needs,
                                 !.pniSignature = needs /\ load \in {"ok", "save error"}]
              res == SuccessfulSendResult(r, FALSE, TRUE)
          IN  /\ load \in {"sign error", "save error"} =>
                    ServiceIDType(r) = "ACI" /\ needsPNISignature[r]
              /\ needsPNISignature' =
                    IF needs /\ load = "ok"
                    THEN [needsPNISignature EXCEPT ![r] = FALSE]
                    ELSE needsPNISignature
              /\ IF gate = "typingDisabled" \/ (gate = "messageRequest" /\ c # "ReceiptRead")
                 THEN /\ ClearSend(ApiProc)
                      /\ apiLog' = << >>
                      /\ apiResult' = res
                      /\ api' = [a EXCEPT !.at = "returned"]
                 ELSE IF gate \in {"messageRequest", "readReceiptsDisabled", "self"}
                 THEN SendSyncCopy(a, res, << >>, storeErr)
                 ELSE /\ StartSend(ApiProc, r, c, TRUE, FALSE)
                      /\ apiLog' = <<LogEntry("primary", r, c, FALSE, << >>)>>
                      /\ apiResult' = NoApiResult
                      /\ api' = [a EXCEPT !.at = "primary"]
    /\ UNCHANGED <<sessions, encryptionLock, scenarioVars, padVars, certVars, contactVars>>

\* SendMessage from the return of the primary sendContent to the call of
\* sendContent for the sync copy, or to its return
SendMessageAfterPrimary ==
    /\ api.op = "SendMessage"
    /\ api.at = "primary"
    /\ pc[ApiProc] = "done"
    /\ LET log == CloseLog(apiLog, ApiProc)
           r == api.recipient
       IN  IF result[ApiProc].err # "nil"
           THEN /\ ClearSend(ApiProc)
                /\ apiLog' = log
                /\ apiResult' = FailedSendResult(r, result[ApiProc].err)
                /\ api' = [api EXCEPT !.at = "returned"]
           ELSE \E storeErr \in BOOLEAN :
                   SendSyncCopy(api, SuccessfulSendResult(r, result[ApiProc].sentUnidentified, TRUE),
                                log, storeErr)
    /\ UNCHANGED <<needsPNISignature, sessions, encryptionLock, scenarioVars, padVars, certVars,
                   contactVars>>

\* SendMessage from the return of the sync copy's sendContent to its return
SendMessageAfterSync ==
    /\ api.op = "SendMessage"
    /\ api.at = "sync"
    /\ pc[ApiProc] = "done"
    /\ ClearSend(ApiProc)
    /\ apiLog' = CloseLog(apiLog, ApiProc)
    /\ apiResult' = AfterSyncCopy(api.gate, apiResult, result[ApiProc].err = "nil")
    /\ api' = [api EXCEPT !.at = "returned"]
    /\ UNCHANGED <<needsPNISignature, sessions, encryptionLock, scenarioVars, padVars, certVars,
                   contactVars>>

\* the caller of SendMessage or sendToGroup takes the result
ApiReturn ==
    /\ api.at = "returned"
    /\ api' = NoApi
    /\ apiResult' = NoApiResult
    /\ apiLog' = << >>
    /\ UNCHANGED <<needsPNISignature, scenarioVars, sendVars, padVars, certVars, contactVars>>

\* sendToGroup: "Don't send normal DataMessages to ourselves"
SkipSelfMember(r) == ServiceIDType(r) = "ACI" /\ r = SelfACI

\* mutant: the loop ends at the first member whose send fails
StopAtFailure_always(failures) == failures # << >>

\* sendToGroup: the loop goes on whatever the failures so far
StopAtFailure(failures) == FALSE

\* the position of the first member at or after position i that the loop
\* dispatches to; Len(members) + 1 when the loop is over
RECURSIVE NextMember(_, _, _)
NextMember(members, i, failures) ==
    IF i > Len(members) \/ StopAtFailure(failures) THEN Len(members) + 1
    ELSE IF SkipSelfMember(members[i]) THEN NextMember(members, i + 1, failures)
    ELSE i

\* GroupMessageSendResult{SuccessfullySentTo, FailedToSendTo}
GroupMessageSendResult(successes, failures) ==
    [NoApiResult EXCEPT !.kind = "GroupMessageSendResult",
                        !.SuccessfullySentTo = successes, !.FailedToSendTo = failures]

\* mutant: any failure fails the group send
GroupReturn_anyFailure(res) ==
    IF res.FailedToSendTo = << >> THEN res
    ELSE [NoApiResult EXCEPT !.kind = "GroupMessageSendResult", !.isNil = TRUE,
                             !.Error = res.FailedToSendTo[Len(res.FailedToSendTo)].Error]

\* sendToGroup: what is returned for the collected result
GroupReturn(res) ==
    IF res.FailedToSendTo = << >> /\ res.SuccessfullySentTo = << >> THEN res
    ELSE IF res.SuccessfullySentTo = << >>
    THEN [NoApiResult EXCEPT !.kind = "GroupMessageSendResult", !.isNil = TRUE,
                             !.Error = res.FailedToSendTo[Len(res.FailedToSendTo)].Error]
    ELSE res

\* sendToGroup from position a.next of its loop to the next call of sendContent
\* (for a member, or for the sync copy), or to its return
GroupContinue(a, res, log, storeErr) ==
    LET j == NextMember(a.members, a.next, res.FailedToSendTo)
        others == howManyOtherDevicesDoWeHave(sessions, storeErr)
        syncContent == GroupSyncContent(a.content)
    IN  IF j <= Len(a.members)
        THEN /\ ~storeErr
             /\ StartSend(ApiProc, a.members[j], a.content, TRUE, TRUE)
             /\ apiLog' = Append(log, LogEntry("member", a.members[j], a.content, TRUE, << >>))
             /\ apiResult' = res
             /\ api' = [a EXCEPT !.at = "primary", !.next = j]
        ELSE IF others > 0
        THEN /\ StartSend(ApiProc, SelfACI, syncContent, TRUE, TRUE)
             /\ apiLog' = Append(log, LogEntry("sync", SelfACI, syncContent, TRUE,
                                               res.SuccessfullySentTo))
             /\ apiResult' = res
             /\ api' = [a EXCEPT !.at = "sync", !.next = j, !.otherDevices = others]
        ELSE /\ ClearSend(ApiProc)
             /\ apiLog' = log
             /\ apiResult' = GroupReturn(res)
             /\ api' = [a EXCEPT !.at = "returned", !.next = j, !.otherDevices = others]

\* the member lists of the groups sent to
MemberLists ==
    {l \in ListsUpTo(pool, MaxMembers) : l # << >> /\ Cardinality(Range(l)) = Len(l)}

\* sendToGroup(ctx, members, c, ts) from its entry to its first call of sendContent
SendToGroup(members, c) ==
    /\ "sendToGroup" \in ops
    /\ api.at = "idle"
    /\ pc[ApiProc] = "idle"
    /\ c \in kinds
    /\ \E storeErr \in BOOLEAN :
          GroupContinue([NoApi EXCEPT !.op = "sendToGroup", !.members = members,
                                      !.content = c, !.next = 1],
                        GroupMessageSendResult(<< >>, << >>), << >>, storeErr)
    /\ UNCHANGED <<needsPNISignature, sessions, encryptionLock, scenarioVars, padVars, certVars,
                   contactVars>>

\* sendToGroup from the return of a member's sendContent to the next call
GroupAfterMember ==
    /\ api.op = "sendToGroup"
    /\ api.at = "primary"
    /\ pc[ApiProc] = "done"
    /\ LET r == api.members[api.next]
           res == IF result[ApiProc].err # "nil"
                  THEN [apiResult EXCEPT !.FailedToSendTo =
                            Append(@, [Recipient |-> r, Error |-> result[ApiProc].err])]
                  ELSE [apiResult EXCEPT !.SuccessfullySentTo =
                            Append(@, [Recipient |-> r,
                                       Unidentified |-> result[ApiProc].sentUnidentified])]
       IN  \E storeErr \in BOOLEAN :
              GroupContinue([api EXCEPT !.next = @ + 1], res, CloseLog(apiLog, ApiProc), storeErr)
    /\ UNCHANGED <<needsPNISignature, sessions, encryptionLock, scenarioVars, padVars, certVars,
                   contactVars>>

\* sendToGroup from the return of the sync copy's sendContent to its return
GroupAfterSync ==
    /\ api.op = "sendToGroup"
    /\ api.at = "sync"
    /\ pc[ApiProc] = "done"
    /\ ClearSend(ApiProc)
    /\ apiLog' = CloseLog(apiLog, ApiProc)
    /\ apiResult' = GroupReturn(apiResult)
    /\ api' = [api EXCEPT !.at = "returned"]
    /\ UNCHANGED <<needsPNISignature, sessions, encryptionLock, scenarioVars, padVars, certVars,
                   contactVars>>

\* the steps of the sendContent call in progress, and the callers' steps
NextApi ==
    \/ Enter(ApiProc)
    \/ Enumerate(ApiProc)
    \/ FetchPreKey(ApiProc)
    \/ EncryptAndSend(ApiProc)
    \/ Respond(ApiProc)
    \/ \E r \in Recipients, c \in MessageKinds : SendMessage(r, c)
    \/ SendMessageAfterPrimary
    \/ SendMessageAfterSync
    \/ \E members \in MemberLists, c \in GroupKinds : SendToGroup(members, c)
    \/ GroupAfterMember
    \/ GroupAfterSync
    \/ ApiReturn

(***************************************************************************)
(* SendContactSyncRequest.                                                 *)
(***************************************************************************)
\* a caller that is not inside SendContactSyncRequest
NoContact == [at |-> "idle", err |-> "pending"]

\* mutant: the time of the last request is not looked at
RequestedInTheLastMinute_never(last, t) == FALSE

\* time.Since(cli.LastContactRequestTime) < 60*time.Second
RequestedInTheLastMinute(last, t) == t - last < MinuteSeconds

\* SendContactSyncRequest from its entry to the check of the last request
\* time: it returns nil there, or goes on
ContactCheck(p) ==
    /\ "SendContactSyncRequest" \in ops
    /\ p \in senders
    /\ contact[p].at = "idle"
    /\ pc[p] = "idle"
    /\ Len(contactLog) < MaxContactRequests
    /\ contact' = [contact EXCEPT ![p] =
                     IF RequestedInTheLastMinute(LastContactRequestTime, seconds)
                     THEN [at |-> "returned", err |-> "nil"]
                     ELSE [at |-> "checked", err |-> "pending"]]
    /\ UNCHANGED <<seconds, LastContactRequestTime, contactLog>>
    /\ UNCHANGED <<scenarioVars, sendVars, padVars, certVars, apiVars>>

\* SendContactSyncRequest: cli.LastContactRequestTime = time.Now(), then
\* sendContent for the request is entered
ContactDispatch(p) ==
    /\ contact[p].at = "checked"
    /\ LastContactRequestTime' = seconds
    /\ contactLog' = Append(contactLog, seconds)
    /\ StartSend(p, SelfACI, "SyncRequest", FALSE, FALSE)
    /\ contact' = [contact EXCEPT ![p] = [at |-> "sending", err |-> "pending"]]
    /\ UNCHANGED <<seconds, sessions, encryptionLock>>
    /\ UNCHANGED <<scenarioVars, padVars, certVars, apiVars>>

\* SendContactSyncRequest from the return of sendContent to its own return
ContactAfterSend(p) ==
    /\ contact[p].at = "sending"
    /\ pc[p] = "done"
    /\ contact' = [contact EXCEPT ![p] = [at |-> "returned", err |-> result[p].err]]
    /\ ClearSend(p)
    /\ UNCHANGED <<seconds, LastContactRequestTime, contactLog, sessions, encryptionLock>>
    /\ UNCHANGED <<scenarioVars, padVars, certVars, apiVars>>

\* the caller of SendContactSyncRequest takes the result
ContactReturn(p) ==
    /\ contact[p].at = "returned"
    /\ contact' = [contact EXCEPT ![p] = NoContact]
    /\ UNCHANGED <<seconds, LastContactRequestTime, contactLog>>
    /\ UNCHANGED <<scenarioVars, sendVars, padVars, certVars, apiVars>>

\* time passes
ContactTick ==
    /\ seconds < MaxSeconds
    /\ seconds' = seconds + TickSeconds
    /\ UNCHANGED <<LastContactRequestTime, contact, contactLog>>
    /\ UNCHANGED <<scenarioVars, sendVars, padVars, certVars, apiVars>>

\* the callers of SendContactSyncRequest and the sends they make
NextContact ==
    \/ \E p \in Procs :
          \/ ContactCheck(p)
          \/ ContactDispatch(p)
          \/ ContactAfterSend(p)
          \/ ContactReturn(p)
          \/ Enter(p)
          \/ Enumerate(p)
          \/ FetchPreKey(p)
          \/ EncryptAndSend(p)
          \/ Respond(p)
    \/ ContactTick

(***************************************************************************)
(* Initial states.                                                         *)
(***************************************************************************)
NoSessions == [d \in Devices |-> "none"]

\* session stores holding sessions for recipient r only
StoresFor(r) ==
    {[q \in Recipients |-> IF q = r THEN f ELSE NoSessions] : f \in [Devices -> SessionKinds]}

\* server device lists that differ from "all devices" for recipient r only; the
\* sending client is always one of the devices of its own account
ServerListsFor(r) ==
    {[q \in Recipients |-> IF q = r THEN ds ELSE Devices] :
        ds \in {x \in SUBSET Devices : x # {} /\ (r = SelfACI => SelfDevice \in x)}}

InitSends ==
    /\ encryptionLock = NoOne
    /\ pc = [p \in Procs |-> "idle"]
    /\ call = [p \in Procs |-> NoCall]
    /\ retryCount = [p \in Procs |-> 0]
    /\ useUnidentifiedSender = [p \in Procs |-> FALSE]
    /\ addresses = [p \in Procs |-> {}]
    /\ batch = [p \in Procs |-> NoBatch]
    /\ sent = [p \in Procs |-> 0]
    /\ lastResponse = [p \in Procs |-> NoResponse]
    /\ repairLog = [p \in Procs |-> << >>]
    /\ result = [p \in Procs |-> NoResult]
    /\ profileKey = [p \in Procs |-> "none"]

InitPadIdle ==
    /\ padVersion = 0
    /\ padContents = << >>
    /\ padResult = [err |-> "pending", out |-> << >>]

\* a client that has not fetched a sender certificate yet
\* a client that holds a long-lived certificate in both slots
InitCertWarm ==
    /\ now = 0
    /\ certSlots = [e \in BOOLEAN |-> Certificate(IF e THEN 1 ELSE 2, 0, 2 * Day)]
    /\ certFetches = 2
    /\ certLog = << >>

InitCertIdle ==
    /\ now = 0
    /\ certSlots = [e \in BOOLEAN |-> NoCert]
    /\ certFetches = 0
    /\ certLog = << >>

\* time.Time{}: the zero time, more than a minute before any clock value
ZeroTime == 0 - MinuteSeconds

\* no SendContactSyncRequest call in progress, none made yet
InitContactIdle ==
    /\ seconds = 0
    /\ LastContactRequestTime = ZeroTime
    /\ contact = [p \in Procs |-> NoContact]
    /\ contactLog = << >>

\* no SendMessage or sendToGroup call in progress
InitApiIdle ==
    /\ needsPNISignature = [q \in Recipients |-> FALSE]
    /\ api = NoApi
    /\ apiResult = NoApiResult
    /\ apiLog = << >>

\* one send at a time, any server
Init ==
    /\ InitSends
    /\ InitApiIdle
    /\ ops = {}
    /\ profileKeys = ProfileKeyOutcomes
    /\ InitContactIdle
    /\ InitPadIdle
    /\ InitCertIdle
    /\ certEnv = QuietCertEnv
    /\ account = DefaultAccount
    /\ senders = {"s1"}
    /\ kinds = ContentKinds
    /\ server = "any"
    /\ serverDevices = [q \in Recipients |-> Devices]
    /\ \E r \in Recipients : pool = {r} /\ sessions \in StoresFor(r)

Spec == Init /\ [][Next]_vars

\* one send at a time, a server that checks the batch against its device list
InitExact ==
    /\ InitSends
    /\ InitApiIdle
    /\ ops = {}
    /\ profileKeys = ProfileKeyOutcomes
    /\ InitContactIdle
    /\ InitPadIdle
    /\ InitCertIdle
    /\ certEnv = QuietCertEnv
    /\ account = DefaultAccount
    /\ senders = {"s1"}
    /\ kinds = ContentKinds
    /\ server = "exact"
    /\ \E r \in Recipients :
        /\ pool = {r}
        /\ sessions \in StoresFor(r)
        /\ serverDevices \in ServerListsFor(r)

SpecExact == InitExact /\ [][Next]_vars

\* two concurrent sends of data messages to the same account
InitConc ==
    /\ InitSends
    /\ InitApiIdle
    /\ ops = {}
    /\ profileKeys = {"error", "missing", "ok"}
    /\ InitContactIdle
    /\ InitPadIdle
    /\ InitCertWarm
    /\ certEnv = QuietCertEnv
    /\ account = DefaultAccount
    /\ senders = Procs
    /\ kinds = {"Data"}
    /\ server = "exact"
    /\ pool = {OtherACI}
    /\ sessions \in StoresFor(OtherACI)
    /\ serverDevices \in ServerListsFor(OtherACI)

SpecConc == InitConc /\ [][Next]_vars

\* a server whose certificates may be issued with less than a day left, and
\* whose certificate endpoint may fail
RenewingCertEnv == [lifetimes |-> {Day - 1, 2 * Day}, reads |-> {"ok"},
                   fetches |-> {"http error", "ok"}]

\* two concurrent sealed sends, solo or to a group, with an empty certificate
\* cache; the recipient has no session or an established one on every device
InitCertConc ==
    /\ InitSends
    /\ InitApiIdle
    /\ ops = {}
    /\ profileKeys = {"ok"}
    /\ InitContactIdle
    /\ InitPadIdle
    /\ InitCertIdle
    /\ certEnv = RenewingCertEnv
    /\ account = DefaultAccount
    /\ senders = Procs
    /\ kinds = {"Data"}
    /\ server = "exact"
    /\ pool = {OtherACI}
    /\ serverDevices = [q \in Recipients |-> Devices]
    /\ sessions \in {[q \in Recipients |-> IF q = OtherACI THEN f ELSE NoSessions] :
                        f \in {NoSessions, [d \in Devices |-> "established"]}}

SpecCertConc == InitCertConc /\ [][Next]_vars

\* session stores with sessions for the own ACI and for recipient r only; the
\* own account's sessions are established ones
ApiStoresFor(r) ==
    {[q \in Recipients |-> IF q = r THEN f ELSE IF q = SelfACI THEN own ELSE NoSessions] :
        f \in [Devices -> SessionKinds], own \in [Devices -> {"none", "established"}]}

\* AccountRecord absent, or present with each setting on or off
AccountRecords ==
    {[DefaultAccount EXCEPT !.present = FALSE]}
    \cup {[DefaultAccount EXCEPT !.typingIndicators = t, !.readReceipts = rr] :
            t \in BOOLEAN, rr \in BOOLEAN}

\* SendMessage calls, one at a time, to one recipient
InitApi ==
    /\ InitSends
    /\ InitPadIdle
    /\ InitCertWarm
    /\ certEnv = QuietCertEnv
    /\ senders = {}
    /\ ops = {"SendMessage"}
    /\ profileKeys = ProfileKeyOutcomes
    /\ InitContactIdle
    /\ kinds = MessageKinds
    /\ server = "exact"
    /\ serverDevices = [q \in Recipients |-> Devices]
    /\ account \in AccountRecords
    /\ api = NoApi
    /\ apiResult = NoApiResult
    /\ apiLog = << >>
    /\ \E r \in Recipients :
          /\ pool = {r}
          /\ sessions \in ApiStoresFor(r)
          /\ needsPNISignature \in
                {[q \in Recipients |-> q = r /\ b] : b \in BOOLEAN}

\* session stores for a group send: each other account has no session or an
\* established session on every device
GroupStores ==
    {[q \in Recipients |->
        IF q = SelfACI THEN own
        ELSE IF q = SelfPNI THEN NoSessions
        ELSE IF q \in known THEN [d \in Devices |-> "established"]
        ELSE NoSessions] :
        own \in [Devices -> {"none", "established"}], known \in SUBSET {OtherACI, OtherPNI}}

\* sendToGroup calls, one at a time, to groups drawn from all the accounts
InitGroup ==
    /\ InitSends
    /\ InitPadIdle
    /\ InitCertWarm
    /\ InitApiIdle
    /\ certEnv = QuietCertEnv
    /\ senders = {}
    /\ ops = {"sendToGroup"}
    /\ profileKeys = ProfileKeyOutcomes
    /\ InitContactIdle
    /\ kinds = GroupKinds
    /\ server = "exact"
    /\ serverDevices = [q \in Recipients |-> Devices]
    /\ account = DefaultAccount
    /\ pool = Recipients
    /\ sessions \in GroupStores

SpecApi == (InitApi \/ InitGroup) /\ [][NextApi]_vars

\* SendGroupMessage passes the caller's Content on to sendToGroup: a text
\* message or a typing notification
InitGroupContent ==
    /\ InitSends
    /\ InitPadIdle
    /\ InitCertWarm
    /\ InitApiIdle
    /\ certEnv = QuietCertEnv
    /\ senders = {}
    /\ ops = {"sendToGroup"}
    /\ profileKeys = ProfileKeyOutcomes
    /\ InitContactIdle
    /\ kinds = {"Data", "Typing"}
    /\ server = "exact"
    /\ serverDevices = [q \in Recipients |-> Devices]
    /\ account = DefaultAccount
    /\ pool = Recipients
    /\ sessions \in GroupStores

NextGroup ==
    \/ Enter(ApiProc)
    \/ Enumerate(ApiProc)
    \/ FetchPreKey(ApiProc)
    \/ EncryptAndSend(ApiProc)
    \/ Respond(ApiProc)
    \/ \E members \in MemberLists, c \in MessageKinds : SendToGroup(members, c)
    \/ GroupAfterMember
    \/ GroupAfterSync
    \/ ApiReturn

SpecGroup == InitGroupContent /\ [][NextGroup]_vars

\* SendContactSyncRequest called from two goroutines of one client
InitContact ==
    /\ InitSends
    /\ InitPadIdle
    /\ InitCertWarm
    /\ InitApiIdle
    /\ InitContactIdle
    /\ certEnv = QuietCertEnv
    /\ senders = Procs
    /\ ops = {"SendContactSyncRequest"}
    /\ profileKeys = ProfileKeyOutcomes
    /\ kinds = {"SyncRequest"}
    /\ server = "exact"
    /\ serverDevices = [q \in Recipients |-> Devices]
    /\ account = DefaultAccount
    /\ pool = {SelfACI}
    /\ sessions \in {[q \in Recipients |-> IF q = SelfACI THEN own ELSE NoSessions] :
                        own \in [Devices -> {"none", "established"}]}

SpecContact == InitContact /\ [][NextContact]_vars

\* every step of a send in flight; each collaborator call returns
Progress(p) ==
    \/ Enter(p)
    \/ Enumerate(p)
    \/ FetchPreKey(p)
    \/ EncryptAndSend(p)
    \/ Respond(p)

\* one send at a time, any server; the content kinds that reach every call shape
InitFair ==
    /\ InitSends
    /\ InitApiIdle
    /\ ops = {}
    /\ profileKeys = ProfileKeyOutcomes
    /\ InitContactIdle
    /\ InitPadIdle
    /\ InitCertWarm
    /\ certEnv = QuietCertEnv
    /\ account = DefaultAccount
    /\ senders = {"s1"}
    /\ kinds = {"Data", "SyncSent", "SyncRequest"}
    /\ server = "any"
    /\ serverDevices = [q \in Recipients |-> Devices]
    /\ \E r \in Recipients : pool = {r} /\ sessions \in StoresFor(r)

FairSpec == InitFair /\ [][Next]_vars /\ \A p \in Procs : WF_vars(Progress(p))

(***************************************************************************)
(* The padding codec.                                                      *)
(***************************************************************************)
\* padBlock: terminator at 0-based position pos, zeros after it
padBlock(block, pos) ==
    IF pos >= Len(block)
    THEN [err |-> "Padding error: position exceeds block length", block |-> block]
    ELSE [err |-> "nil",
          block |-> [i \in 1..Len(block) |->
                        IF i = pos + 1 THEN PadTerminator
                        ELSE IF i > pos + 1 THEN 0
                        ELSE block[i]]]

\* mutant: one part too many when the length is a multiple of the block size
messagePartCount_alwaysExtra(messageLengthWithTerminator) ==
    (messageLengthWithTerminator \div PadBlockSize) + 1

\* addPadding: number of 160-byte parts for a message with its terminator
messagePartCount(messageLengthWithTerminator) ==
    (messageLengthWithTerminator \div PadBlockSize)
        + (IF messageLengthWithTerminator % PadBlockSize # 0 THEN 1 ELSE 0)

addPadding(version, contents) ==
    IF version < 2 THEN [err |-> "Unknown version", out |-> << >>]
    ELSE IF version = 2 THEN [err |-> "nil", out |-> contents]
    ELSE LET messageLength == Len(contents)
             messageLengthWithPadding == messagePartCount(messageLength + 1) * PadBlockSize
             buffer == [i \in 1..messageLengthWithPadding |->
                           IF i <= messageLength THEN contents[i] ELSE 0]
             padded == padBlock(buffer, messageLength)
         IN  IF padded.err # "nil"
             THEN [err |-> "Invalid message padding", out |-> << >>]
             ELSE [err |-> "nil", out |-> padded.block]

\* plaintexts of length len whose bytes follow a pattern; the patterns put
\* zero bytes and terminator bytes inside the plaintext
PadPatterns == {0, 1, 128}
Plaintext(len, pattern) == [i \in 1..len |-> (pattern * i) % 256]

PadVersions == 0..4

CallAddPadding ==
    /\ padResult.err = "pending"
    /\ padResult' = addPadding(padVersion, padContents)
    /\ UNCHANGED <<padVersion, padContents, scenarioVars, sendVars, certVars, apiVars, contactVars>>

InitPad ==
    /\ InitSends
    /\ InitApiIdle
    /\ ops = {}
    /\ profileKeys = ProfileKeyOutcomes
    /\ InitContactIdle
    /\ InitCertIdle
    /\ certEnv = QuietCertEnv
    /\ account = DefaultAccount
    /\ senders = {}
    /\ pool = {}
    /\ kinds = {}
    /\ server = "any"
    /\ serverDevices = [q \in Recipients |-> Devices]
    /\ sessions = [q \in Recipients |-> NoSessions]
    /\ padVersion \in PadVersions
    /\ \E len \in 0..MaxPlainLen, pattern \in PadPatterns :
          padContents = Plaintext(len, pattern)
    /\ padResult = [err |-> "pending", out |-> << >>]

NextPad == CallAddPadding

SpecPad == InitPad /\ [][NextPad]_vars

(***************************************************************************)
(* senderCertificate called directly, with the clock running.              *)
(***************************************************************************)
\* one call of senderCertificate(ctx, e164)
CallSenderCertificate(e164) ==
    /\ Len(certLog) < MaxCertCalls
    /\ \E read \in certEnv.reads, fetch \in certEnv.fetches, life \in certEnv.lifetimes :
          LET c == senderCertificate(certSlots, e164, now, certFetches, read, fetch, life)
          IN  /\ certSlots' = c.slots
              /\ certFetches' = CountFetch(certFetches, c)
              /\ certLog' = Append(certLog,
                                [e164 |-> e164, at |-> now, before |-> certSlots[e164],
                                 read |-> IF certSlots[e164] = NoCert THEN "none" ELSE read,
                                 fetched |-> c.fetched, cert |-> c.cert, err |-> c.err,
                                 after |-> c.slots[e164]])
    /\ UNCHANGED <<now, scenarioVars, sendVars, padVars, apiVars, contactVars>>

\* an hour passes
Tick ==
    /\ now < MaxTime
    /\ now' = now + 1
    /\ UNCHANGED <<certSlots, certFetches, certLog, scenarioVars, sendVars, padVars, apiVars,
                   contactVars>>

\* the server issues certificates that last about a day
ShortCertEnv == [lifetimes |-> {Day - 1, Day, Day + 1, Day + 2},
                 reads |-> ExpiryReads, fetches |-> FetchOutcomes]

InitCert ==
    /\ InitSends
    /\ InitApiIdle
    /\ ops = {}
    /\ profileKeys = ProfileKeyOutcomes
    /\ InitContactIdle
    /\ InitPadIdle
    /\ InitCertIdle
    /\ senders = {}
    /\ pool = {}
    /\ kinds = {}
    /\ server = "any"
    /\ serverDevices = [q \in Recipients |-> Devices]
    /\ sessions = [q \in Recipients |-> NoSessions]
    /\ certEnv = ShortCertEnv
    /\ account = DefaultAccount

NextCert ==
    \/ \E e164 \in BOOLEAN : CallSenderCertificate(e164)
    \/ Tick

SpecCert == InitCert /\ [][NextCert]_vars

(***************************************************************************)
(* Properties.                                                             *)
(***************************************************************************)
InFlight == {"sendContent", "lock", "fetchPreKey", "encrypt"}

EnvelopeTypes(b) == {e.type : e \in b.envelopes}

\* C1: one top-level sendContent transmits at most one initial batch plus
\* MaxRetries retries, every transmitted batch is at depth <= MaxRetries, and a
\* send that goes beyond that depth ends with "too many retries" having
\* transmitted nothing at that depth.
C1_RetryDepthBounded ==
    \A p \in Procs :
        /\ sent[p] <= MaxRetries + 1
        /\ batch[p].retryCount <= MaxRetries
        /\ (pc[p] = "awaiting" => retryCount[p] <= MaxRetries)
        /\ (retryCount[p] > MaxRetries =>
                /\ retryCount[p] = MaxRetries + 1
                /\ pc[p] \in {"sendContent", "done"}
                /\ sent[p] = MaxRetries + 1
                /\ (pc[p] = "done" => result[p].err = "too many retries"))

C1_Witness ==
    \E p \in Procs :
        /\ pc[p] = "done"
        /\ result[p].err = "too many retries"
        /\ sent[p] = MaxRetries + 1
        /\ lastResponse[p].status = 503

\* C2: no batch for the sender's own ACI holds an envelope for the sending
\* device, at any retry depth and for any session store.
C2_NoEnvelopeToOwnDevice ==
    \A p \in Procs :
        call[p].recipient = SelfACI =>
            \A e \in batch[p].envelopes : e.destinationDeviceId # SelfDevice

C2_Witness ==
    \E p \in Procs :
        /\ call[p].recipient = SelfACI
        /\ pc[p] = "awaiting"
        /\ batch[p].retryCount > 0
        /\ batch[p].envelopes # {}
        /\ sessions[SelfACI][SelfDevice] # "none"
        /\ SelfDevice \in addresses[p]

\* C3: a batch for a PNI recipient goes out on the authenticated socket,
\* without the access-key header and without an UNIDENTIFIED_SENDER envelope.
C3_PNINeverSealed ==
    \A p \in Procs :
        (batch[p].socket # "none" /\ ServiceIDType(call[p].recipient) = "PNI") =>
            /\ batch[p].socket = "authed"
            /\ ~batch[p].accessKeyHeader
            /\ "UNIDENTIFIED_SENDER" \notin EnvelopeTypes(batch[p])

C3_Witness ==
    \E p \in Procs :
        /\ call[p].recipient = OtherPNI
        /\ pc[p] = "awaiting"
        /\ batch[p].retryCount > 0
        /\ batch[p].socket = "authed"
        /\ batch[p].envelopes # {}

\* C4: at most one send is between taking the encryption lock and releasing
\* it, and that send is the lock's holder.
C4_OneEncryptionAtATime ==
    LET inside == {p \in Procs : pc[p] \in {"fetchPreKey", "encrypt"}}
    IN  /\ Cardinality(inside) <= 1
        /\ \A p \in inside : encryptionLock = p
        /\ (inside = {} => encryptionLock = NoOne)

C4_Witness ==
    \E p, q \in Procs :
        /\ p # q
        /\ pc[p] = "encrypt"
        /\ pc[q] = "lock"

\* C5: after a 401 on the unauthenticated socket the send goes on at depth + 1
\* in authenticated mode, the batch it transmits next is on the authenticated
\* socket with no UNIDENTIFIED_SENDER envelope, and if that batch is answered
\* with 200 the send returns Unidentified = false.
C5_After401(p) ==
    lastResponse[p].status = 401 =>
        /\ (pc[p] \in InFlight =>
                /\ batch[p].socket = "unauthed"
                /\ retryCount[p] = batch[p].retryCount + 1
                /\ ~useUnidentifiedSender[p])
        /\ (pc[p] = "awaiting" =>
                /\ batch[p].socket = "authed"
                /\ ~batch[p].accessKeyHeader
                /\ batch[p].retryCount = retryCount[p]
                /\ "UNIDENTIFIED_SENDER" \notin EnvelopeTypes(batch[p]))

C5_DowngradeOn401 ==
    [][\A p \in Procs :
          /\ C5_After401(p)'
          /\ (lastResponse[p].status = 401 /\ pc[p] = "awaiting" /\ pc'[p] = "done"
                /\ result'[p].err = "nil" => ~result'[p].sentUnidentified)]_vars

C5_Witness ==
    \E p \in Procs :
        /\ lastResponse[p].status = 401
        /\ pc[p] = "awaiting"
        /\ batch[p].socket = "authed"
        /\ batch[p].retryCount = MaxRetries

\* C6 (as claimed): whenever a retry is transmitted after a 409, the handler
\* has fetched a prekey bundle for every missing device and removed the
\* session of every extra device.
C6_Repair409Complete ==
    \A p \in Procs :
        (pc[p] = "awaiting" /\ lastResponse[p].status = 409) =>
            /\ \A d \in Range(lastResponse[p].missingDevices) :
                  <<"FetchAndProcessPreKey", d>> \in Range(repairLog[p])
            /\ \A d \in Range(lastResponse[p].extraDevices) :
                  <<"RemoveSession", d>> \in Range(repairLog[p])

\* the remove-then-fetch sequence a complete 410 repair performs
FullRepair410(stale) ==
    [i \in 1..(2 * Len(stale)) |->
        IF i % 2 = 1 THEN <<"RemoveSession", stale[(i + 1) \div 2]>>
        ELSE <<"FetchAndProcessPreKey", stale[i \div 2]>>]

\* C7: after a 410 the send goes on (and transmits a retry) only when every
\* stale device had its session removed and then a prekey bundle fetched, in
\* that order, leaving a fresh session; otherwise the send has ended with the
\* handler's error and the 410'd batch is the last one transmitted.
C7_Repair410 ==
    \A p \in Procs :
        lastResponse[p].status = 410 =>
            \/ /\ lastResponse[p].bodyValid
               /\ repairLog[p] = FullRepair410(lastResponse[p].staleDevices)
               /\ (pc[p] \in InFlight \cup {"awaiting"} =>
                     \A d \in Range(lastResponse[p].staleDevices) :
                        sessions[call[p].recipient][d] = "fresh")
            \/ /\ pc[p] = "done"
               /\ result[p].err \in {"RemoveSession error", "prekey fetch error",
                                     "Unmarshal error"}
               /\ batch[p].retryCount = retryCount[p]

C7_Witness ==
    \E p \in Procs :
        /\ lastResponse[p].status = 410
        /\ lastResponse[p].staleDevices # << >>
        /\ pc[p] = "awaiting"
        /\ batch[p].retryCount > 0
        /\ \E e \in batch[p].envelopes :
              /\ e.destinationDeviceId \in Range(lastResponse[p].staleDevices)
              /\ e.type = "PREKEY_BUNDLE"

\* C8: with the exact server, a send that returns success leaves the session
\* store's devices for its recipient within the server's device list.
C8_SuccessWithinServerList ==
    \A p \in Procs :
        (pc[p] = "done" /\ result[p].err = "nil") =>
            AllSessionsForServiceID(sessions, call[p].recipient)
                \subseteq serverDevices[call[p].recipient]

C8_Witness ==
    \E p \in Procs :
        /\ pc[p] = "done"
        /\ result[p].err = "nil"
        /\ sent[p] >= 2
        /\ "RemoveSession" \in {op[1] : op \in Range(repairLog[p])}

\* C9: every top-level send returns.
C9_SendReturns == \A p \in Procs : (pc[p] # "idle") ~> (pc[p] = "done")

C9_Witness ==
    \E p \in Procs :
        /\ pc[p] = "done"
        /\ result[p].err = "too many retries"
        /\ lastResponse[p].status = 428

\* C10: addPadding at version 3 returns the plaintext, then 0x80, then zeros up
\* to the smallest multiple of 160 above the plaintext's length; at version 2
\* the plaintext itself; below version 2 an error.
C10_Padding ==
    padResult.err # "pending" =>
        LET L == Len(padContents)
            out == padResult.out
        IN  /\ (padVersion < 2 => padResult.err # "nil")
            /\ (padVersion = 2 => padResult.err = "nil" /\ out = padContents)
            /\ (padVersion = 3 =>
                  /\ padResult.err = "nil"
                  /\ Len(out) % 160 = 0
                  /\ Len(out) > L
                  /\ Len(out) - 160 <= L
                  /\ \A i \in 1..L : out[i] = padContents[i]
                  /\ out[L + 1] = 128
                  /\ \A i \in (L + 2)..Len(out) : out[i] = 0
                  /\ (L = 159 => Len(out) = 160)
                  /\ (L = 160 => Len(out) = 320))

C10_Witness ==
    /\ padVersion = 3
    /\ Len(padContents) = 160
    /\ padContents[159] = 128
    /\ padResult.err = "nil"
    /\ Len(padResult.out) = 320

\* the call after call i that uses the same slot, with no call of that slot between
NextCallOfSlot(i, j) ==
    /\ i < j
    /\ certLog[i].e164 = certLog[j].e164
    /\ \A k \in (i + 1)..(j - 1) : certLog[k].e164 # certLog[i].e164

C12_ValidIffMoreThanADay ==
    \A i \in 1..Len(certLog) :
        (certLog[i].before # NoCert /\ certLog[i].read = "ok") =>
            LET remaining == certLog[i].before.expiration - certLog[i].at
                returnedCached == /\ ~certLog[i].fetched
                                  /\ certLog[i].err = "nil"
                                  /\ certLog[i].cert = certLog[i].before
            IN  /\ returnedCached <=> remaining > Day
                /\ (remaining <= Day => certLog[i].fetched)

\* C15: a send to the sender's own PNI transmits no batch, never gets as far as
\* taking the encryption lock, and returns the own-PNI error, for every
\* content kind; having transmitted nothing it is never retried.
C15_OwnPNIRejected ==
    \A p \in Procs :
        (pc[p] # "idle" /\ call[p].recipient = SelfPNI) =>
            /\ pc[p] \in {"sendContent", "done"}
            /\ sent[p] = 0
            /\ batch[p] = NoBatch
            /\ retryCount[p] = 0
            /\ (pc[p] = "done" =>
                    /\ result[p].err = "can't send to own PNI"
                    /\ ~result[p].sentUnidentified)

C15_Witness ==
    \E p \in Procs :
        /\ call[p].recipient = SelfPNI
        /\ call[p].content = "Typing"
        /\ pc[p] = "done"
        /\ result[p].err = "can't send to own PNI"
        /\ sessions[SelfPNI][SelfDevice] # "none"

\* the account has typing indicators switched off
TypingDisabled == account.present /\ ~account.typingIndicators

\* C13: a SendMessage of a Typing message with typing indicators disabled
\* returns in one step with WasSuccessful = true and no error, without calling
\* sendContent, and leaves the session store, the certificate cache, the fetch
\* counter and the transmitted batches as they were.
C13_TypingSuppressed ==
    [][(api.at = "idle" /\ api'.op = "SendMessage" /\ api'.content = "Typing"
            /\ TypingDisabled) =>
          /\ api'.at = "returned"
          /\ apiResult'.WasSuccessful
          /\ apiResult'.Error = "nil"
          /\ apiResult'.Recipient = api'.recipient
          /\ apiLog' = << >>
          /\ pc'[ApiProc] = "idle"
          /\ UNCHANGED <<sessions, certSlots, certFetches, batch, sent, lastResponse>>]_vars

C13_Witness ==
    /\ api.op = "SendMessage"
    /\ api.at = "returned"
    /\ api.content = "Typing"
    /\ api.gate = "typingDisabled"
    /\ api.recipient = OtherACI
    /\ TypingDisabled
    /\ sessions[SelfACI][2] = "established"
    /\ sessions[OtherACI][1] = "established"
    /\ apiResult.WasSuccessful

\* a SendMessage to the own ACI with content other than a DELIVERY receipt
SelfSend ==
    /\ api.op = "SendMessage"
    /\ api.recipient = SelfACI
    /\ api.content # "ReceiptDelivery"

\* no sendContent call of the SendMessage in progress carries the content itself
NoPrimarySend ==
    /\ api.at # "primary"
    /\ \A i \in 1..Len(apiLog) :
          /\ apiLog[i].role = "sync"
          /\ apiLog[i].recipient = SelfACI
          /\ apiLog[i].content \in {"SyncSent", "SyncRead"}

Others(l) == SelectSeq(l, LAMBDA r : r # SelfACI)

\* the sendContent calls made for members, and those made for the sync copy
MemberCalls == SelectSeq(apiLog, LAMBDA e : e.role = "member")
SyncCalls == SelectSeq(apiLog, LAMBDA e : e.role = "sync")

\* the member calls that returned without, and with, an error
SucceededCalls == SelectSeq(MemberCalls, LAMBDA e : e.returned /\ e.err = "nil")
FailedCalls == SelectSeq(MemberCalls, LAMBDA e : e.returned /\ e.err # "nil")

\* the group send's loop over the members is over
GroupLoopDone == api.op = "sendToGroup" /\ api.at \in {"sync", "returned"}

\* C16: when the loop of a group send is over, the members other than the own
\* ACI have each been dispatched to once, in member order, whatever failed on
\* the way; the success and failure lists hold, in member order, the members
\* whose dispatch succeeded and failed; and a self-sync copy lists in its
\* unidentifiedStatus the successful members with their Unidentified flags.
C16_GroupFanOut ==
    GroupLoopDone =>
        /\ [i \in 1..Len(MemberCalls) |-> MemberCalls[i].recipient] = Others(api.members)
        /\ \A i \in 1..Len(MemberCalls) : MemberCalls[i].returned
        /\ (api.at = "sync" \/ ~apiResult.isNil =>
              /\ apiResult.SuccessfullySentTo =
                    [i \in 1..Len(SucceededCalls) |->
                        [Recipient |-> SucceededCalls[i].recipient,
                         Unidentified |-> SucceededCalls[i].sentUnidentified]]
              /\ apiResult.FailedToSendTo =
                    [i \in 1..Len(FailedCalls) |->
                        [Recipient |-> FailedCalls[i].recipient,
                         Error |-> FailedCalls[i].err]])
        /\ Len(SyncCalls) <= 1
        /\ \A i \in 1..Len(SyncCalls) :
              /\ SyncCalls[i].recipient = SelfACI
              /\ SyncCalls[i].unidentifiedStatus =
                    [k \in 1..Len(SucceededCalls) |->
                        [Recipient |-> SucceededCalls[k].recipient,
                         Unidentified |-> SucceededCalls[k].sentUnidentified]]

C16_Witness ==
    /\ api.op = "sendToGroup"
    /\ api.at = "returned"
    /\ api.members = <<OtherACI, SelfPNI, OtherPNI>>
    /\ Len(apiResult.SuccessfullySentTo) = 2
    /\ Len(apiResult.FailedToSendTo) = 1
    /\ Len(SyncCalls) = 1
    /\ Len(SyncCalls[1].unidentifiedStatus) = 2
    /\ SyncCalls[1].err = "nil"

\* a group whose only member is the sender
OnlySelf == api.op = "sendToGroup" /\ Range(api.members) = {SelfACI}

\* C17 (as claimed): a group send to a group of the sender alone calls
\* sendContent for nobody, not even for a sync copy, and returns the empty
\* result without error.
C17_OnlySelfNoSync ==
    OnlySelf =>
        /\ apiLog = << >>
        /\ api.at # "sync"
        /\ (api.at = "returned" =>
              /\ ~apiResult.isNil
              /\ apiResult.Error = "nil"
              /\ apiResult.SuccessfullySentTo = << >>
              /\ apiResult.FailedToSendTo = << >>)

\* C18: a group send returns an error exactly when it dispatched to at least
\* one member and no dispatch succeeded, and the error is the last member's;
\* otherwise it returns the lists without error.
C18_GroupError ==
    (api.op = "sendToGroup" /\ api.at = "returned") =>
        LET attempted == Len(MemberCalls) > 0
            noSuccess == Len(SucceededCalls) = 0
        IN  /\ apiResult.isNil <=> (attempted /\ noSuccess)
            /\ (apiResult.isNil =>
                  /\ apiResult.Error # "nil"
                  /\ apiResult.Error = MemberCalls[Len(MemberCalls)].err)
            /\ (~apiResult.isNil =>
                  /\ apiResult.Error = "nil"
                  /\ Len(apiResult.SuccessfullySentTo) = Len(SucceededCalls)
                  /\ Len(apiResult.FailedToSendTo) = Len(FailedCalls))

C18_Witness ==
    /\ api.op = "sendToGroup"
    /\ api.at = "returned"
    /\ ~apiResult.isNil
    /\ Len(apiResult.SuccessfullySentTo) = 1
    /\ Len(apiResult.FailedToSendTo) = 2
    /\ apiResult.FailedToSendTo[2].Error = "prekey fetch error"

\* a SendMessage to another account, or a group send, takes the step from the
\* return of its sync copy to its own return
SyncCopyReturns ==
    /\ api.at = "sync"
    /\ api'.at = "returned"
    /\ api.op = "SendMessage" => api.recipient # SelfACI

\* C19: the result returned after the sync copy is the one the primary sends
\* had produced before it, whether the sync copy failed or not: for
\* SendMessage the success held while the sync copy was sent, for a group send
\* the lists collected in the loop, with an error only when they hold
\* failures and no success.
C19_SyncOutcomeIgnored ==
    [][SyncCopyReturns =>
          IF api.op = "SendMessage"
          THEN /\ apiResult' = apiResult
               /\ apiResult'.WasSuccessful
               /\ apiResult'.Error = "nil"
          ELSE /\ apiResult'.isNil <=>
                    (apiResult.SuccessfullySentTo = << >> /\ apiResult.FailedToSendTo # << >>)
               /\ (~apiResult'.isNil => apiResult' = apiResult /\ apiResult'.Error = "nil")
               /\ (apiResult'.isNil =>
                     apiResult'.Error =
                        apiResult.FailedToSendTo[Len(apiResult.FailedToSendTo)].Error)]_vars

C19_Witness ==
    /\ api.op = "SendMessage"
    /\ api.at = "returned"
    /\ api.gate = "wire"
    /\ api.recipient = OtherPNI
    /\ Len(apiLog) = 2
    /\ apiLog[1].err = "nil"
    /\ apiLog[2].role = "sync"
    /\ apiLog[2].err = "transport error"
    /\ apiResult.WasSuccessful
    /\ apiResult.Error = "nil"

\* a SendMessage that went to the wire for another account has returned
WireSendReturned ==
    /\ api.op = "SendMessage"
    /\ api.gate = "wire"
    /\ api.recipient # SelfACI
    /\ api.at = "returned"

\* every sync-copy call in the log comes after a primary call that returned
\* without error
SyncOnlyAfterSuccess ==
    \A i \in 1..Len(apiLog) :
        apiLog[i].role = "sync" =>
            /\ i = 2
            /\ apiLog[1].role = "primary"
            /\ apiLog[1].returned
            /\ apiLog[1].err = "nil"

\* C20 (as claimed): a SendMessage that went to the wire attempts a sync copy
\* exactly when the primary send succeeded and the account has another
\* device, for every content kind, and never before the primary succeeded.
C20_SyncIffSuccessAndDevices ==
    /\ (api.op = "SendMessage" /\ api.gate = "wire" => SyncOnlyAfterSuccess)
    /\ (WireSendReturned =>
          (Len(SyncCalls) = 1 <=> (apiLog[1].err = "nil" /\ api.otherDevices > 0)))

\* C20 (amended): a SendMessage that went to the wire attempts a sync copy
\* exactly when the primary send succeeded, the account has another device,
\* and the content has a sync form (Data, Edit, or a READ receipt for an ACI
\* recipient); never before the primary succeeded.
C20_SyncIffSuccessDevicesAndForm ==
    /\ (api.op = "SendMessage" /\ api.gate = "wire" => SyncOnlyAfterSuccess)
    /\ (WireSendReturned =>
          /\ Len(SyncCalls) <= 1
          /\ Len(SyncCalls) = 1 <=>
                /\ apiLog[1].err = "nil"
                /\ api.otherDevices > 0
                /\ \/ api.content \in {"Data", "Edit"}
                   \/ api.content = "ReceiptRead" /\ ServiceIDType(api.recipient) = "ACI")

C20_Witness ==
    /\ WireSendReturned
    /\ api.content = "ReceiptRead"
    /\ api.recipient = OtherACI
    /\ Len(apiLog) = 2
    /\ apiLog[2].content = "SyncRead"
    /\ apiLog[2].batches > 0

(***************************************************************************)
(* The outcome of sendContent: transport mode, statuses, errors.           *)
(***************************************************************************)
\* the send of p has returned without error
Succeeded(p) == pc[p] = "done" /\ result[p].err = "nil"

\* C21: the Unidentified flag of a successful send is true exactly when the
\* attempt the server answered with 200 was submitted on the unauthenticated
\* socket, whatever retries and downgrades came before it.
C21_FlagIsSocketOfAcceptedAttempt ==
    \A p \in Procs :
        Succeeded(p) =>
            /\ lastResponse[p].status = 200
            /\ batch[p].socket \in {"unauthed", "authed"}
            /\ result[p].sentUnidentified <=> batch[p].socket = "unauthed"

\* a send that was retried once and succeeded on the
\* authenticated socket at its second attempt, reported as not sealed
C21_Witness ==
    \E p \in Procs :
        /\ Succeeded(p)
        /\ batch[p].retryCount = 1
        /\ batch[p].socket = "authed"
        /\ ~result[p].sentUnidentified
        /\ call[p].recipient = OtherACI
        /\ sent[p] = 2

\* C22: a send does not hold the encryption lock while it waits for the
\* server's response: the lock is held only inside buildMessagesToSend, so
\* another send can encrypt and transmit during the round trip.
C22_NoLockWhileAwaiting ==
    \A p \in Procs :
        /\ (pc[p] = "awaiting" => encryptionLock # p)
        /\ (encryptionLock = p => pc[p] \in {"fetchPreKey", "encrypt"})

\* both sends are waiting for their response at once: the second one took
\* the lock, encrypted and transmitted while the first was waiting
C22_Witness ==
    /\ pc["s1"] = "awaiting"
    /\ pc["s2"] = "awaiting"
    /\ batch["s1"].envelopes # {}
    /\ batch["s2"].envelopes # {}
    /\ encryptionLock = NoOne

\* C23: for a recipient with no known sessions the prekey-bundle fetch and the
\* second enumeration come before the encryption lock is taken: no send holds
\* the lock while its prekey-bundle fetch is in flight.
C23_NoLockDuringPreKeyFetch ==
    \A p \in Procs : pc[p] = "fetchPreKey" => encryptionLock # p

\* the last response the send of p received has one of the given statuses
AnsweredWith(p, statuses) == lastResponse[p].status \in statuses

\* the devices a batch is addressed to
BatchDevices(b) == {m.destinationDeviceId : m \in b.envelopes}

Unhandled(status, socket) ==
    /\ status \notin ({0, 200} \cup RetryableStatuses)
    /\ ~(status = 401 /\ socket = "unauthed")

\* C25: a response whose status is not 200, not 409, 410, 428, 500 or 503,
\* and not a 401 to a sealed attempt ends the send at once with the
\* unexpected-status error: no handler runs, no further attempt is made; in
\* particular a 401 on the authenticated socket is not retried.
C25_UnexpectedStatusFails ==
    [][\A p \in Procs :
         pc[p] = "awaiting" /\ Unhandled(lastResponse[p].status, batch[p].socket)'
            => /\ pc'[p] = "done"
               /\ result'[p].err = "unexpected status code"
               /\ result'[p].sentUnidentified = (batch[p].socket = "unauthed")
               /\ sessions' = sessions
               /\ sent'[p] = sent[p]
               /\ retryCount'[p] = retryCount[p]
    ]_vars

\* a 401 answered on the authenticated socket has ended the send
C25_Witness ==
    \E p \in Procs :
        /\ pc[p] = "done"
        /\ lastResponse[p].status = 401
        /\ batch[p].socket = "authed"
        /\ result[p].err = "unexpected status code"
        /\ sent[p] = 1

\* C26: a 428 is followed by an immediate retry, one level deeper and so
\* counted against the retry bound, with no waiting state in between and the
\* session store as it was, whatever the response carries in its Retry-After
\* header and its body.
C26_RateLimitRetriesAtOnce ==
    [][\A p \in Procs :
         pc[p] = "awaiting" /\ AnsweredWith(p, {428})'
            => /\ pc'[p] = "sendContent"
               /\ retryCount'[p] = retryCount[p] + 1
               /\ useUnidentifiedSender'[p] = (batch[p].socket = "unauthed")
               /\ sessions' = sessions
    ]_vars

\* C27: when SendRequest fails (the connection failed or the context was
\* cancelled) the send returns that error and makes no further attempt; what
\* the 409 and 410 handlers of earlier attempts did to the session store
\* stays as it is, also when the caller takes the result.
C27_TransportErrorEndsSend ==
    [][\A p \in Procs :
         /\ (pc[p] = "awaiting" /\ AnsweredWith(p, {0})'
               => /\ pc'[p] = "done"
                  /\ result'[p].err = "transport error"
                  /\ result'[p].sentUnidentified = (batch[p].socket = "unauthed")
                  /\ sessions' = sessions
                  /\ repairLog'[p] = repairLog[p]
                  /\ sent'[p] = sent[p]
                  /\ retryCount'[p] = retryCount[p])
         /\ (pc[p] = "done" /\ result[p].err = "transport error"
               => sessions' = sessions /\ pc'[p] \in {"done", "idle"})
    ]_vars

\* a retry made after a 410 repair has failed in transport: the send has
\* ended, the repaired sessions are still in the store
C27_Witness ==
    \E p \in Procs :
        /\ pc[p] = "done"
        /\ result[p].err = "transport error"
        /\ batch[p].retryCount = 1
        /\ \E d \in Devices :
              /\ repairLog[p] = FullRepair410(<<d>>)
              /\ sessions[call[p].recipient][d] = "fresh"

\* C28: a call that finds a certificate in its slot and fails to read its
\* expiration takes the cached certificate as valid: it returns it without
\* error and makes no fetch.
C28_ExpiryReadErrorKeepsCached ==
    \A i \in 1..Len(certLog) :
        (certLog[i].before # NoCert /\ certLog[i].read = "error") =>
            /\ ~certLog[i].fetched
            /\ certLog[i].err = "nil"
            /\ certLog[i].cert = certLog[i].before
            /\ certLog[i].after = certLog[i].before

\* C29: a transmitted batch is of one mode: either every envelope is of type
\* UNIDENTIFIED_SENDER, the request carries the access-key header and goes to
\* the unauthenticated socket, or no envelope is of that type, there is no
\* access-key header and the request goes to the authenticated socket.
C29_BatchOfOneMode ==
    \A p \in Procs :
        batch[p] # NoBatch =>
            \/ /\ \A e \in batch[p].envelopes : e.type = "UNIDENTIFIED_SENDER"
               /\ batch[p].accessKeyHeader
               /\ batch[p].socket = "unauthed"
            \/ /\ \A e \in batch[p].envelopes : e.type # "UNIDENTIFIED_SENDER"
               /\ ~batch[p].accessKeyHeader
               /\ batch[p].socket = "authed"

\* a sealed batch for two devices is in flight
C29_Witness ==
    \E p \in Procs :
        /\ pc[p] = "awaiting"
        /\ Cardinality(batch[p].envelopes) = 2
        /\ \A e \in batch[p].envelopes : e.type = "UNIDENTIFIED_SENDER"
        /\ batch[p].socket = "unauthed"

\* C30: when a sealed send to another account's ACI finds no profile key for
\* the recipient, or cannot derive the access key from it, the send does not
\* fail for it: the attempt goes on authenticated, its batch is encrypted by
\* the authenticated path and handed to the authenticated socket, and a 200 to
\* it is reported as a success with Unidentified = false.
C30_MissingAccessKeyDowngrades ==
    \A p \in Procs :
        profileKey[p] \in {"missing", "deriveFails"} =>
            /\ ServiceIDType(call[p].recipient) = "ACI"
            /\ call[p].recipient # SelfACI
            /\ ~useUnidentifiedSender[p]
            /\ result[p].err # "failed to get profile key"
            \* the attempt goes on to buildMessagesToSend; it is back at the
            \* entry of sendContent only as the retry after a response
            /\ pc[p] \in {"lock", "fetchPreKey", "encrypt", "awaiting", "done", "sendContent"}
            /\ (pc[p] = "sendContent" => retryCount[p] = batch[p].retryCount + 1)
            \* the batch of this attempt, once transmitted
            /\ (pc[p] \in {"awaiting", "done"} /\ batch[p].socket # "none"
                    /\ batch[p].retryCount = retryCount[p]
                  => /\ batch[p].socket = "authed"
                     /\ ~batch[p].accessKeyHeader
                     /\ \A e \in batch[p].envelopes : e.type # "UNIDENTIFIED_SENDER")
            /\ (pc[p] = "done" /\ lastResponse[p].status = 200
                  => /\ result[p] = [err |-> "nil", sentUnidentified |-> FALSE]
                     /\ batch[p].retryCount = retryCount[p])

\* a first attempt whose access key could not be derived has been answered 200
C30_Witness ==
    \E p \in Procs :
        /\ profileKey[p] = "deriveFails"
        /\ Succeeded(p)
        /\ batch[p].retryCount = 0
        /\ batch[p].socket = "authed"
        /\ batch[p].envelopes # {}
        /\ ~result[p].sentUnidentified

(***************************************************************************)
(* SendMessage: the suppressed messages, the PNI signature, the results.   *)
(***************************************************************************)
\* the SendMessage in progress found the recipient's NeedsPNISignature flag
\* set and is handed a Typing or a Receipt message
PNISignatureCase ==
    /\ api.op = "SendMessage"
    /\ api.needs
    /\ api.content \in {"Typing", "ReceiptRead", "ReceiptDelivery"}

\* C31: a SendMessage that found the recipient's NeedsPNISignature flag set and
\* is handed a Typing or a Receipt message calls sendContent for the recipient
\* never, returns success, and calls it for a sync copy only when the content
\* is a READ receipt.
C31_PNISignatureCaseSuppressed ==
    [][/\ (api.at = "idle" /\ api'.op = "SendMessage" /\ api'.needs
             => /\ needsPNISignature[api'.recipient]
                /\ ServiceIDType(api'.recipient) = "ACI")
       /\ (PNISignatureCase'
             => /\ NoPrimarySend'
                /\ Len(apiLog') <= 1
                /\ (apiLog' # << >>
                      => api'.content = "ReceiptRead" /\ apiLog'[1].content = "SyncRead")
                /\ (api'.at = "returned"
                      => /\ apiResult'.WasSuccessful
                         /\ apiResult'.Error = "nil"
                         /\ apiResult'.Recipient = api'.recipient))
      ]_vars

\* a READ receipt in the PNI-signature case has returned: one call of
\* sendContent, for the sync copy, which transmitted a batch
C31_Witness ==
    /\ PNISignatureCase
    /\ api.content = "ReceiptRead"
    /\ api.recipient = OtherACI
    /\ api.at = "returned"
    /\ Len(apiLog) = 1
    /\ apiLog[1].role = "sync"
    /\ apiLog[1].batches > 0
    /\ apiResult.WasSuccessful

\* the account has read receipts switched off
ReadReceiptsDisabled == account.present /\ ~account.readReceipts

\* the SendMessage in progress is handed a READ receipt while read receipts
\* are switched off
SuppressedReadReceipt ==
    /\ api.op = "SendMessage"
    /\ api.content = "ReceiptRead"
    /\ ReadReceiptsDisabled

\* C32 (as claimed): a READ receipt sent while read receipts are disabled is
\* not transmitted to the recipient, its sync copy is still attempted whenever
\* the account has other devices, and the result is WasSuccessful = true
\* whatever the sync copy's outcome.
C32_ReadReceiptSyncWheneverDevices ==
    SuppressedReadReceipt =>
        /\ NoPrimarySend
        /\ (api.at = "returned" =>
              /\ apiResult.WasSuccessful
              /\ apiResult.Error = "nil"
              /\ (api.otherDevices > 0 => Len(apiLog) = 1))

\* C32 (amended): a READ receipt sent while read receipts are disabled is not
\* transmitted to the recipient; its sync copy is attempted exactly when the
\* account has other devices and the recipient is addressed by ACI; and the
\* result is WasSuccessful = true whatever the sync copy's outcome.
C32_ReadReceiptSuppressed ==
    SuppressedReadReceipt =>
        /\ NoPrimarySend
        /\ Len(apiLog) <= 1
        /\ (api.at = "returned" =>
              /\ apiResult.WasSuccessful
              /\ apiResult.Error = "nil"
              /\ apiResult.Recipient = api.recipient
              /\ Len(apiLog) = 1 <=>
                    (api.otherDevices > 0 /\ ServiceIDType(api.recipient) = "ACI")
              /\ (Len(apiLog) = 1 => apiLog[1].content = "SyncRead" /\ apiLog[1].returned))

\* the sync copy of a suppressed READ receipt failed and the message
\* returned success
C32_Witness ==
    /\ SuppressedReadReceipt
    /\ ~api.needs
    /\ api.recipient = OtherACI
    /\ api.at = "returned"
    /\ Len(apiLog) = 1
    /\ apiLog[1].err = "transport error"
    /\ apiResult.WasSuccessful

(***************************************************************************)
(* SendContactSyncRequest: the spacing of the requests.                    *)
(***************************************************************************)
\* C33: whatever the order and the interleaving of the SendContactSyncRequest
\* calls of one client, two contact sync requests are never dispatched less
\* than 60 seconds apart, and a call that finds a request made in the last 60
\* seconds returns nil without sending.
C33_RequestsAMinuteApart ==
    [][/\ \A i, j \in 1..Len(contactLog') :
             i < j => contactLog'[j] - contactLog'[i] >= MinuteSeconds
       /\ \A p \in Procs :
             (/\ contact[p].at = "idle"
              /\ contact'[p].at # "idle"
              /\ contactLog # << >>
              /\ seconds - contactLog[Len(contactLog)] < MinuteSeconds)
                => /\ contact'[p] = [at |-> "returned", err |-> "nil"]
                   /\ pc'[p] = "idle"
                   /\ contactLog' = contactLog
      ]_vars

\* C34: a batch handed to the socket holds at least one envelope; a send to
\* the own ACI whose only session is the one of the sending device transmits
\* nothing.
C34_NoEmptyBatch ==
    \A p \in Procs :
        /\ (batch[p] # NoBatch => batch[p].envelopes # {})
        /\ ((/\ call[p].recipient = SelfACI
             /\ pc[p] \in {"awaiting", "done"}
             /\ AllSessionsForServiceID(sessions, SelfACI) = {SelfDevice})
              => sent[p] = 0)

\* C35: the NeedsPNISignature flag of a recipient goes from set to cleared only
\* in the step in which a batch of the SendMessage that attached the
\* PniSignatureMessage is answered 200 for that recipient; a SendMessage that
\* found the flag set and was suppressed, or failed, returns with the flag
\* still set.
C35_FlagClearedOnAcceptance ==
    [][/\ \A r \in Recipients :
             needsPNISignature[r] /\ ~needsPNISignature'[r]
                => /\ api.op = "SendMessage"
                   /\ api.recipient = r
                   /\ api.pniSignature
                   /\ api.at = "primary"
                   /\ pc'[ApiProc] = "done"
                   /\ lastResponse'[ApiProc].status = 200
       /\ ((/\ api'.op = "SendMessage"
            /\ api'.at = "returned"
            /\ api'.needs
            /\ (api'.gate = "messageRequest" \/ ~apiResult'.WasSuccessful))
             => needsPNISignature'[api'.recipient])
      ]_vars

(***************************************************************************)
(* sendToGroup: the content of the sync copy.                              *)
(***************************************************************************)
\* C36: sendContent is never entered with a nil content; a group send whose
\* content is neither a Data nor an Edit message makes no call of sendContent
\* for a sync copy.
C36_GroupSyncContentNotNil ==
    /\ \A p \in Procs : pc[p] # "idle" => call[p].content # NilContent
    /\ (api.op = "sendToGroup" /\ api.content \notin {"Data", "Edit"}
          => \A i \in 1..Len(apiLog) : apiLog[i].role # "sync")

(***************************************************************************)
(* SendMessage: the error of a failed result.                              *)
(***************************************************************************)
\* C37: a SendMessage that returns WasSuccessful = false returns a
\* FailedSendResult whose Error is not nil, the message to the own ACI
\* included.
C37_FailureCarriesError ==
    (api.op = "SendMessage" /\ api.at = "returned" /\ ~apiResult.WasSuccessful)
        => apiResult.Error # "nil"

(***************************************************************************)
(* sendContent: the mode of the attempts of one send.                      *)
(***************************************************************************)
\* the step is a recursive call of sendContent, or a step inside one attempt
SameTopLevelSend(p) ==
    /\ pc[p] # "idle"
    /\ pc'[p] # "idle"
    /\ ~(pc'[p] = "sendContent" /\ retryCount'[p] = 0)

\* C38: within one top-level send the mode only moves from sealed to
\* authenticated: an attempt that is authenticated stays so and hands the
\* authenticated mode to every retry, and once a batch of the send has gone to
\* the authenticated socket no later batch goes to the unauthenticated one.
C38_ModeOnlyDowngrades ==
    [][\A p \in Procs :
          SameTopLevelSend(p) =>
             /\ (~useUnidentifiedSender[p] => ~useUnidentifiedSender'[p])
             /\ (batch[p].socket = "authed" => batch'[p].socket = "authed")
      ]_vars

\* a sealed attempt was answered 401, and the retry's batch has gone to the
\* authenticated socket
C38_Witness ==
    \E p \in Procs :
        /\ pc[p] = "awaiting"
        /\ lastResponse[p].status = 401
        /\ batch[p].retryCount = 1
        /\ batch[p].socket = "authed"
        /\ batch[p].envelopes # {}

(***************************************************************************)
(* Concurrent sends: the session store between enumeration and encryption. *)
(***************************************************************************)
\* the send has enumerated the recipient's sessions and has not yet encrypted
\* for them
Enumerated(p) == pc[p] = "encrypt"

\* C39: while a send is between enumerating a recipient's sessions and
\* encrypting for them, no step of another send changes a session of that
\* recipient, and every enumerated device still has its session.
C39_SessionsStableWhileEncrypting ==
    [][\A q \in Procs :
          Enumerated(q) =>
             /\ \A d \in addresses[q] : sessions[call[q].recipient][d] # "none"
             /\ (Enumerated(q)' =>
                    sessions'[call[q].recipient] = sessions[call[q].recipient])
      ]_vars

(***************************************************************************)
(* The sender-certificate cache and the encryption lock.                   *)
(***************************************************************************)
\* C40: senderCertificate is called, and so the certificate cache read and
\* written, only by a send that holds encryptionLock; a call for one
\* include-E.164 value leaves the slot of the other value as it was.
C40_CertificateCacheUnderLock ==
    [][/\ \A p \in Procs : pc[p] = "encrypt" => encryptionLock = p
       /\ (certSlots' # certSlots \/ certFetches' # certFetches
             => \E p \in Procs :
                   /\ encryptionLock = p
                   /\ pc[p] = "encrypt"
                   /\ pc'[p] # "encrypt"
                   /\ useUnidentifiedSender[p]
                   /\ certSlots'[~IncludeE164(call[p].isGroup)]
                         = certSlots[~IncludeE164(call[p].isGroup)])
      ]_vars

\* one send waits for the lock while the other, holding it, has fetched the
\* certificate that fills the slot of its include-E.164 value; the other slot
\* holds a different certificate
C40_Witness ==
    \E p, q \in Procs :
        /\ p # q
        /\ pc[q] = "lock"
        /\ pc[p] = "awaiting"
        /\ batch[p].socket = "unauthed"
        /\ certSlots[IncludeE164(call[p].isGroup)] # NoCert
        /\ certSlots[~IncludeE164(call[p].isGroup)] # NoCert
        /\ certSlots[TRUE].id # certSlots[FALSE].id

=============================================================================
